---- MODULE Spec2Model ----
(***************************************************************************)
(* Model of the text-to-image browser extension: the background service    *)
(* worker (message router, handleGenerateFromSidepanel, generateImage),    *)
(* the FAL API client (callFalAPI), the storage utilities (API key and     *)
(* history), the content script's selection processing and the sidepanel   *)
(* commands.                                                               *)
(*                                                                         *)
(* Every async function is cut at its awaits: the code between two awaits   *)
(* runs atomically on the single-threaded event loop, and each await is    *)
(* resolved or rejected by the environment in a later step.                 *)
(***************************************************************************)
EXTENDS Integers, Sequences, FiniteSets, TLC

----------------------------------------------------------------------------
(* Strings.  A JavaScript string is a sequence of runs [c, n]: the         *)
(* character c repeated n >= 1 times, adjacent runs having different       *)
(* characters.  Lengths are counted in characters, as the code counts.     *)

Run(c, n) == [c |-> c, n |-> n]

EmptyStr == <<>>

IsWhitespaceChar(c) == c = " "

RECURSIVE StrLen(_)
StrLen(s) == IF s = <<>> THEN 0 ELSE Head(s).n + StrLen(Tail(s))

RECURSIVE TrimStart(_)
TrimStart(s) ==
    IF s = <<>> THEN s
    ELSE IF IsWhitespaceChar(Head(s).c) THEN TrimStart(Tail(s))
    ELSE s

RECURSIVE TrimEnd(_)
TrimEnd(s) ==
    IF s = <<>> THEN s
    ELSE IF IsWhitespaceChar(s[Len(s)].c) THEN TrimEnd(SubSeq(s, 1, Len(s) - 1))
    ELSE s

\* String.prototype.trim
Trim(s) == TrimEnd(TrimStart(s))

\* String.prototype.substring(0, k)
RECURSIVE Substring0(_, _)
Substring0(s, k) ==
    IF s = <<>> \/ k <= 0 THEN <<>>
    ELSE IF Head(s).n >= k THEN <<Run(Head(s).c, k)>>
    ELSE <<Head(s)>> \o Substring0(Tail(s), k - Head(s).n)

\* first and last character of a non-empty string
FirstChar(s) == s[1].c
LastChar(s) == s[Len(s)].c

HasNonWhitespace(s) == \E i \in DOMAIN s : ~IsWhitespaceChar(s[i].c)

----------------------------------------------------------------------------
(* Content script: selection validation and truncation.                    *)

MAX_TEXT_LENGTH == 1000

isEmptyOrWhitespace(text) == StrLen(Trim(text)) = 0

\* a plausible slip: a text of exactly MAX_TEXT_LENGTH counts as truncated
truncateText_atLimit(text) ==
    IF StrLen(text) >= MAX_TEXT_LENGTH
    THEN [text |-> Substring0(text, MAX_TEXT_LENGTH), wasTruncated |-> TRUE]
    ELSE [text |-> text, wasTruncated |-> FALSE]

truncateText(text) ==
    IF StrLen(text) > MAX_TEXT_LENGTH
    THEN [text |-> Substring0(text, MAX_TEXT_LENGTH), wasTruncated |-> TRUE]
    ELSE [text |-> text, wasTruncated |-> FALSE]

processSelectedText(rawText) ==
    LET trimmedText == Trim(rawText)
    IN  IF isEmptyOrWhitespace(rawText)
        THEN [text |-> EmptyStr, isValid |-> FALSE, wasTruncated |-> FALSE,
              error |-> <<"Empty or whitespace-only selection">>]
        ELSE LET t == truncateText(trimmedText)
             IN  [text |-> t.text, isValid |-> TRUE,
                  wasTruncated |-> t.wasTruncated, error |-> <<>>]

\* The response the content script's listener sends for GET_CURRENT_SELECTION.
GetCurrentSelectionResponse(rawText) == processSelectedText(rawText)

\* chrome.runtime.onMessage listener of the content script, with the page's
\* selection rawText: what it passes to sendResponse, <<>> if it does not respond
contentOnMessage(message, rawText) ==
    IF message.type = "GET_CURRENT_SELECTION"
    THEN <<[op |-> "getSelection", rawText |-> rawText],
           [op |-> "sendResponse", response |-> GetCurrentSelectionResponse(rawText)]>>
    ELSE <<>>

----------------------------------------------------------------------------
(* Values thrown and caught.  A message is a sequence of text chunks, so    *)
(* that a template literal is the concatenation of its parts.               *)

ApiError(message, userMessage, statusCode) ==
    [cls |-> "ApiError", message |-> message, userMessage |-> userMessage,
     statusCode |-> statusCode]

\* new Error(message), new TypeError(message), a SyntaxError, a DOMException
ErrorOf(cls, message) == [cls |-> cls, message |-> message]

\* a thrown value that is no Error object
NonError == [cls |-> "NonError", message |-> <<>>]

ErrorClasses == {"Error", "TypeError", "SyntaxError", "DOMException", "ApiError"}

InstanceOfError(e) == e.cls \in ErrorClasses

\* the texts of this model that contain the word 'fetch'
TextsWithFetch == {"Failed to fetch"}

\* error.message.includes('fetch')
MessageIncludesFetch(message) == \E i \in DOMAIN message : message[i] \in TextsWithFetch

NoStatus == 0

----------------------------------------------------------------------------
(* FAL API client.                                                          *)

MSG_RATE_LIMIT == <<"Rate limit exceeded. Please wait a moment and try again.">>
MSG_AUTH == <<"Invalid or expired API key. Please check your API key in settings.">>
MSG_BAD_REQUEST == <<"Invalid request. Please try a different prompt.">>
MSG_SERVICE == <<"Service temporarily unavailable. Please try again later.">>
MSG_GENERIC == <<"Failed to generate image. Please try again.">>
MSG_INVALID_RESPONSE == <<"Failed to generate image. The service returned an invalid response.">>
MSG_INVALID_URL == <<"Failed to generate image. The service returned an invalid image URL.">>
MSG_NETWORK == <<"Network error. Please check your internet connection and try again.">>
MSG_UNEXPECTED == <<"An unexpected error occurred. Please try again.">>

\* new URL(text): the URL strings of this model and what the parser makes of them
UrlTexts ==
    {"https://fal.media/x.jpg", "https://fal.media/y.jpg", "http://x/y.png?a=1#b",
     "ftp://x/y", "javascript:alert(1)", "not a url", "/relative/path", ""}

ParseURL(text) ==
    CASE text \in {"https://fal.media/x.jpg", "https://fal.media/y.jpg"} ->
            [ok |-> TRUE, protocol |-> "https:"]
      [] text = "http://x/y.png?a=1#b" -> [ok |-> TRUE, protocol |-> "http:"]
      [] text = "ftp://x/y" -> [ok |-> TRUE, protocol |-> "ftp:"]
      [] text = "javascript:alert(1)" -> [ok |-> TRUE, protocol |-> "javascript:"]
      [] OTHER -> [ok |-> FALSE, protocol |-> ""]

\* a JavaScript value in the url position: a string, or something else
UrlString(text) == [kind |-> "string", text |-> text]
UrlUndefined == [kind |-> "undefined", text |-> ""]

\* a plausible slip: any URL that parses is accepted, whatever its scheme
validateImageUrl_anyScheme(url) ==
    IF url.kind # "string" \/ url.text = "" THEN FALSE
    ELSE ParseURL(url.text).ok

validateImageUrl(url) ==
    IF url.kind # "string" \/ url.text = "" THEN FALSE
    ELSE LET urlObject == ParseURL(url.text)
         IN  IF ~urlObject.ok THEN FALSE
             ELSE urlObject.protocol = "http:" \/ urlObject.protocol = "https:"

\* a plausible slip: 403 is not treated as an authentication failure
parseApiError_401only(statusCode, errorText) ==
    IF statusCode = 429 THEN MSG_RATE_LIMIT
    ELSE IF statusCode = 401 THEN MSG_AUTH
    ELSE IF statusCode = 400 THEN MSG_BAD_REQUEST
    ELSE IF statusCode >= 500 THEN MSG_SERVICE
    ELSE IF errorText # "" THEN <<"Failed to generate image: ", errorText>>
    ELSE MSG_GENERIC

parseApiError(statusCode, errorText) ==
    IF statusCode = 429 THEN MSG_RATE_LIMIT
    ELSE IF statusCode = 401 \/ statusCode = 403 THEN MSG_AUTH
    ELSE IF statusCode = 400 THEN MSG_BAD_REQUEST
    ELSE IF statusCode >= 500 THEN MSG_SERVICE
    ELSE IF errorText # "" THEN <<"Failed to generate image: ", errorText>>
    ELSE MSG_GENERIC

\* Response.ok
ResponseOk(status) == status >= 200 /\ status <= 299

\* callFalAPI, the branch for a response that is not ok: the value it throws
\* once the error text is read (or, failing that, the status text is used)
callFalAPI_notOk(status, errorText) ==
    ApiError(<<"FAL API error">>, parseApiError(status, errorText), status)

(* The parsed body.  data is null, a primitive, or an object whose images  *)
(* property is missing, a non-array (falsy or truthy) or an array of       *)
(* entries; an entry is null, a primitive or an object with a url.          *)
DataNull == [kind |-> "null"]
DataPrimitive == [kind |-> "primitive"]
DataObject(images) == [kind |-> "object", images |-> images]
ImagesMissing == [kind |-> "missing", items |-> <<>>]
ImagesFalsy == [kind |-> "falsy", items |-> <<>>]
ImagesNotArray == [kind |-> "notArray", items |-> <<>>]
ImagesArray(items) == [kind |-> "array", items |-> items]
EntryNull == [kind |-> "null", url |-> UrlUndefined]
EntryPrimitive == [kind |-> "primitive", url |-> UrlUndefined]
EntryObject(url) == [kind |-> "object", url |-> url]

\* callFalAPI's catch block: what it throws for a caught value
callFalAPI_catch(error) ==
    IF error.cls = "ApiError" THEN error
    ELSE IF error.cls = "TypeError" /\ MessageIncludesFetch(error.message)
         THEN ApiError(<<"Network error: Unable to connect to FAL API">>, MSG_NETWORK, NoStatus)
    ELSE IF error.cls = "SyntaxError"
         THEN ApiError(<<"Failed to parse API response">>, MSG_INVALID_RESPONSE, NoStatus)
    ELSE ApiError(IF InstanceOfError(error) THEN error.message
                  ELSE <<"Unknown error occurred">>, MSG_UNEXPECTED, NoStatus)

\* a plausible slip: the last image entry is taken instead of the first
callFalAPI_body_last(data) ==
    IF data.kind = "object" /\ data.images.kind = "array" /\ Len(data.images.items) > 0
       /\ data.images.items[Len(data.images.items)].kind = "object"
       /\ validateImageUrl(data.images.items[Len(data.images.items)].url)
    THEN [ok |-> TRUE, value |-> data.images.items[Len(data.images.items)].url.text]
    ELSE [ok |-> FALSE,
          value |-> ApiError(<<"Invalid API response: no images returned">>,
                             MSG_INVALID_RESPONSE, NoStatus)]

\* callFalAPI from the parsed body on: [ok, value] with the image URL
\* returned, or the ApiError thrown
callFalAPI_body(data) ==
    IF data.kind = "null"
    THEN [ok |-> FALSE,
          value |-> callFalAPI_catch(ErrorOf("TypeError",
                        <<"Cannot read properties of null (reading 'images')">>))]
    ELSE IF data.kind = "primitive"
            \/ data.images.kind \in {"missing", "falsy", "notArray"}
            \/ Len(data.images.items) = 0
    THEN [ok |-> FALSE,
          value |-> callFalAPI_catch(ApiError(<<"Invalid API response: no images returned">>,
                                              MSG_INVALID_RESPONSE, NoStatus))]
    ELSE LET first == data.images.items[1]
         IN  IF first.kind = "null"
             THEN [ok |-> FALSE,
                   value |-> callFalAPI_catch(ErrorOf("TypeError",
                                 <<"Cannot read properties of null (reading 'url')">>))]
             ELSE LET imageUrl == first.url
                  IN  IF ~validateImageUrl(imageUrl)
                      THEN [ok |-> FALSE,
                            value |-> callFalAPI_catch(
                                ApiError(<<"Invalid image URL format received from API">>,
                                         MSG_INVALID_URL, NoStatus))]
                      ELSE [ok |-> TRUE, value |-> imageUrl.text]

----------------------------------------------------------------------------
(* Storage utilities.  A key of chrome.storage.local is absent (<<>>) or   *)
(* holds one value (<<v>>).                                                 *)

Absent == <<>>
Stored(v) == <<v>>

MAX_HISTORY_SIZE == 50

MSG_NO_KEY == <<"API key not configured. Please add your FAL API key in settings.">>
MSG_KEY_READ == <<"Failed to retrieve API key. Please check browser storage permissions.">>
MSG_HISTORY_SAVE == <<"Failed to save to history. Please check browser storage permissions.">>
MSG_HISTORY_READ == <<"Failed to retrieve history. Please check browser storage permissions.">>
MSG_HISTORY_CLEAR == <<"Failed to clear history. Please check browser storage permissions.">>
MSG_KEY_FORMAT == <<"Invalid API key format", ". Please provide a valid FAL API key.">>
MSG_KEY_SAVE == <<"Failed to save API key. Please check browser storage permissions.">>
MSG_KEY_REMOVE == <<"Failed to remove API key. Please check browser storage permissions.">>

\* const { history = [] } = await chrome.storage.local.get('history')
HistoryOrDefault(entry) == IF entry = Absent THEN <<>> ELSE entry[1]

\* getHistory, on the entry its storage read resolves with
getHistory(entry) == HistoryOrDefault(entry)

\* Array.prototype.slice(0, n)
Slice0(list, n) == SubSeq(list, 1, IF Len(list) < n THEN Len(list) ELSE n)

\* addToHistory's new item.  Date.now() never goes backwards and the random
\* suffix keeps ids apart: tick is the count of items created before this one.
NewHistoryItem(prompt, imageUrl, tick) ==
    [id |-> tick + 1, prompt |-> prompt, imageUrl |-> imageUrl, timestamp |-> tick + 1]

\* a plausible slip: slice(-MAX_HISTORY_SIZE), which drops the head
limitedHistory_tail(entry, newItem) ==
    LET updated == <<newItem>> \o HistoryOrDefault(entry)
    IN  SubSeq(updated, IF Len(updated) > MAX_HISTORY_SIZE
                        THEN Len(updated) - MAX_HISTORY_SIZE + 1 ELSE 1, Len(updated))

\* a plausible slip: the new item is pushed at the end
limitedHistory_append(entry, newItem) ==
    Slice0(HistoryOrDefault(entry) \o <<newItem>>, MAX_HISTORY_SIZE)

\* addToHistory between its storage read and its storage write
limitedHistory(entry, newItem) == Slice0(<<newItem>> \o HistoryOrDefault(entry), MAX_HISTORY_SIZE)

\* validateApiKeyFormat's minimum length
MinApiKeyLength == 10

\* a plausible slip: surrounding whitespace is not checked
validateApiKeyFormat_untrimmed(apiKey) ==
    IF StrLen(apiKey) = 0 THEN FALSE
    ELSE IF StrLen(apiKey) < MinApiKeyLength THEN FALSE
    ELSE TRUE

validateApiKeyFormat(apiKey) ==
    IF StrLen(apiKey) = 0 THEN FALSE
    ELSE IF apiKey # Trim(apiKey) THEN FALSE
    ELSE IF StrLen(apiKey) < MinApiKeyLength THEN FALSE
    ELSE TRUE

\* a plausible slip: only a missing key is caught, an empty string passes
ApiKeyMissing_absentOnly(entry) == entry = Absent

\* a plausible slip: the check applies the format validation of saveApiKey
ApiKeyMissing_strict(entry) == entry = Absent \/ ~validateApiKeyFormat(entry[1])

\* if (!apiKey), on the value getApiKey resolves with
ApiKeyMissing(entry) == entry = Absent \/ entry[1] = EmptyStr

----------------------------------------------------------------------------
(* State.                                                                   *)

VARIABLES
    storageApiKey,   \* chrome.storage.local 'apiKey': Absent or Stored(string)
    storageHistory,  \* chrome.storage.local 'history': Absent or Stored(list)
    clock,           \* number of history items created so far
    pc,              \* per call slot: the await the call is suspended at
    prompt,          \* per call slot: generateImage's / addToHistory's prompt
    status,          \* per call slot: response.status of callFalAPI
    imageUrl,        \* per call slot: the URL callFalAPI returned
    pending,         \* per call slot: addToHistory's list between read and write
    log,             \* per call slot: what the call did so far, in order
    clearPc,         \* the clearHistory call: idle, set (write issued), applied
    routed,          \* the last message the background listener received
    panel            \* the sidepanel's current-generation area

vars == <<storageApiKey, storageHistory, clock, pc, prompt, status, imageUrl,
          pending, log, clearPc, routed, panel>>

MaxAttempts == 2

\* direct calls of addToHistory are made while fewer items than this were created
MaxInserts == 52

Attempts == 1 .. MaxAttempts

NoMessage == [type |-> "none"]

\* the sidepanel before a history is rendered: what the current-generation
\* area shows, whether it holds a Retry button, whether the generate button
\* is disabled, lastFailedPrompt (null is Absent) and the items of the
\* history grid
PanelEmpty ==
    [view |-> "empty", prompt |-> <<>>, imageUrl |-> "", error |-> <<>>, disabled |-> FALSE,
     retry |-> FALSE, lastFailedPrompt |-> Absent, history |-> <<>>]

\* the lifecycle messages
GenerationStarted(p) == [type |-> "GENERATION_STARTED", prompt |-> p]
ImageGenerated(p, u) == [type |-> "IMAGE_GENERATED", prompt |-> p, imageUrl |-> u]
GenerationError(e) == [type |-> "GENERATION_ERROR", error |-> e]

\* notifySidepanel(message), as an entry of the call's log
notifySidepanel(message) == [op |-> "notify", msg |-> message]

Did(op) == [op |-> op]

\* generateImage's catch block: the message it sends for a caught value
generateImage_catch(error) ==
    IF error.cls = "ApiError" THEN error.userMessage
    ELSE IF InstanceOfError(error) THEN error.message
    ELSE MSG_GENERIC

\* the call in slot a is a direct call of addToHistory (not one made by generateImage)
IsDirect(a) == log[a] # <<>> /\ log[a][1].op = "addToHistory"

\* the call in slot a appends entries to its log and moves to await next
Step(a, entries, next) ==
    /\ log' = [log EXCEPT ![a] = @ \o entries]
    /\ pc' = [pc EXCEPT ![a] = next]

\* a plausible slip: the failure is reported by generateImage's catch block and
\* once more by its caller's
ThrowAfter_twice(a, entries, error) ==
    Step(a, entries \o <<notifySidepanel(GenerationError(generateImage_catch(error))),
                         notifySidepanel(GenerationError(generateImage_catch(error)))>>, "done")

\* a value thrown inside generateImage's try block is reported and ends the call;
\* thrown inside a direct call of addToHistory it rejects that call
ThrowAfter(a, entries, error) ==
    IF IsDirect(a)
    THEN Step(a, entries \o <<[op |-> "rejected", error |-> error]>>, "idle")
    ELSE Step(a, entries \o <<notifySidepanel(GenerationError(generateImage_catch(error)))>>,
              "done")

\* a plausible slip: the failure is noted but the history write is not skipped
callFalAPI_throws_saved(a, cause, error) ==
    Step(a, <<cause, [op |-> "callFalAPIThrew", error |-> error], Did("historyGet")>>,
         "histGet")

\* callFalAPI throws error, for the given cause (what the environment answered):
\* both are noted, and generateImage's catch block reports the error
callFalAPI_throws(a, cause, error) ==
    ThrowAfter(a, <<cause, [op |-> "callFalAPIThrew", error |-> error]>>, error)

----------------------------------------------------------------------------
(* Background: message router and handleGenerateFromSidepanel.              *)

\* the slot a new call runs in: the first one not in use
FreeSlot(a) == pc[a] = "idle" /\ \A b \in Attempts : b < a => pc[b] # "idle"

\* a plausible slip: a trigger received while an attempt is in flight is dropped
OnMessage_singleFlight(message) ==
    /\ routed' = message
    /\ IF message.type = "GENERATE_FROM_SIDEPANEL"
          /\ \A b \in Attempts : pc[b] \in {"idle", "done"}
       THEN \E a \in Attempts :
               /\ FreeSlot(a)
               /\ pc' = [pc EXCEPT ![a] = "tabsQuery"]
               /\ log' = [log EXCEPT ![a] = <<Did("handleGenerateFromSidepanel"),
                                              Did("tabsQuery")>>]
       ELSE UNCHANGED <<pc, log>>
    /\ UNCHANGED <<storageApiKey, storageHistory, clock, prompt, status, imageUrl,
                   pending, clearPc, panel>>

\* a plausible slip: handleTextSelected triggers a generation as well
OnMessage_textSelected(message) ==
    /\ routed' = message
    /\ IF message.type \in {"GENERATE_FROM_SIDEPANEL", "TEXT_SELECTED"}
       THEN \E a \in Attempts :
               /\ FreeSlot(a)
               /\ pc' = [pc EXCEPT ![a] = "tabsQuery"]
               /\ log' = [log EXCEPT ![a] = <<Did("handleGenerateFromSidepanel"),
                                              Did("tabsQuery")>>]
       ELSE UNCHANGED <<pc, log>>
    /\ UNCHANGED <<storageApiKey, storageHistory, clock, prompt, status, imageUrl,
                   pending, clearPc, panel>>

\* chrome.runtime.onMessage listener of the background
OnMessage(message) ==
    /\ routed' = message
    /\ IF message.type = "GENERATE_FROM_SIDEPANEL"
       THEN \E a \in Attempts :
               /\ FreeSlot(a)
               /\ pc' = [pc EXCEPT ![a] = "tabsQuery"]
               /\ log' = [log EXCEPT ![a] = <<Did("handleGenerateFromSidepanel"),
                                              Did("tabsQuery")>>]
       ELSE UNCHANGED <<pc, log>>
    /\ UNCHANGED <<storageApiKey, storageHistory, clock, prompt, status, imageUrl,
                   pending, clearPc, panel>>

\* a plausible slip: the prompt is kept in a variable of the module, which
\* all attempts share
generateImage_shared(a, noted, p) ==
    /\ prompt' = [b \in Attempts |-> p]
    /\ Step(a, noted \o <<[op |-> "generateImage", prompt |-> p], Did("getApiKey")>>,
            "getApiKey")

\* generateImage(prompt) up to its first await, called once the caller has
\* noted the given entries
generateImage(a, noted, p) ==
    /\ prompt' = [prompt EXCEPT ![a] = p]
    /\ Step(a, noted \o <<[op |-> "generateImage", prompt |-> p], Did("getApiKey")>>,
            "getApiKey")

\* a plausible slip: if (!tabs[0]), which lets a tab without id through
handleGenerateFromSidepanel_afterQuery_anyTab(a, tabs) ==
    /\ pc[a] = "tabsQuery"
    /\ IF tabs = "none"
       THEN Step(a, <<[op |-> "tabs", result |-> tabs],
                      notifySidepanel(GenerationError(<<"No active tab found">>))>>, "done")
       ELSE Step(a, <<[op |-> "tabs", result |-> tabs], Did("tabsSendMessage")>>,
                 "selection")
    /\ UNCHANGED <<storageApiKey, storageHistory, clock, prompt, status, imageUrl,
                   pending, clearPc, routed, panel>>

\* chrome.tabs.query resolved with tabs: "none" (no tab), "noId" (a tab without id)
\* or "tab"
handleGenerateFromSidepanel_afterQuery(a, tabs) ==
    /\ pc[a] = "tabsQuery"
    /\ IF tabs # "tab"
       THEN Step(a, <<[op |-> "tabs", result |-> tabs],
                      notifySidepanel(GenerationError(<<"No active tab found">>))>>, "done")
       ELSE Step(a, <<[op |-> "tabs", result |-> tabs], Did("tabsSendMessage")>>,
                 "selection")
    /\ UNCHANGED <<storageApiKey, storageHistory, clock, prompt, status, imageUrl,
                   pending, clearPc, routed, panel>>

\* a plausible slip: the catch block only logs
handleGenerateFromSidepanel_catch_silent(a) == Step(a, <<Did("caught")>>, "done")

\* a plausible slip: the catch block reports the generic failure
handleGenerateFromSidepanel_catch_generic(a) ==
    Step(a, <<Did("caught"), notifySidepanel(GenerationError(MSG_GENERIC))>>, "done")

\* the catch block of handleGenerateFromSidepanel
handleGenerateFromSidepanel_catch(a) ==
    Step(a, <<Did("caught"),
              notifySidepanel(GenerationError(
                 <<"Failed to get text selection. Please try again.">>))>>, "done")

handleGenerateFromSidepanel_queryRejected(a) ==
    /\ pc[a] = "tabsQuery"
    /\ handleGenerateFromSidepanel_catch(a)
    /\ UNCHANGED <<storageApiKey, storageHistory, clock, prompt, status, imageUrl,
                   pending, clearPc, routed, panel>>

\* a plausible slip: the provider's reason is dropped
handleGenerateFromSidepanel_afterSelection_default(a, response) ==
    /\ pc[a] = "selection"
    /\ IF response # Absent /\ response[1].text # EmptyStr
       THEN generateImage(a, <<[op |-> "selectionResponse", response |-> response]>>,
                          response[1].text)
       ELSE /\ Step(a, <<[op |-> "selectionResponse", response |-> response],
                         notifySidepanel(GenerationError(
                            <<"No text selected. Please highlight some text on the page.">>))>>,
                    "done")
            /\ UNCHANGED prompt
    /\ UNCHANGED <<storageApiKey, storageHistory, clock, status, imageUrl,
                   pending, clearPc, routed, panel>>

\* chrome.tabs.sendMessage resolved with response: Absent (undefined) or
\* Stored(the content script's response)
handleGenerateFromSidepanel_afterSelection(a, response) ==
    /\ pc[a] = "selection"
    /\ IF response # Absent /\ response[1].text # EmptyStr
       THEN generateImage(a, <<[op |-> "selectionResponse", response |-> response]>>,
                          response[1].text)
       ELSE /\ Step(a, <<[op |-> "selectionResponse", response |-> response],
                         notifySidepanel(GenerationError(
                            IF response # Absent /\ response[1].error # <<>>
                            THEN response[1].error
                            ELSE <<"No text selected. Please highlight some text on the page.">>))>>,
                    "done")
            /\ UNCHANGED prompt
    /\ UNCHANGED <<storageApiKey, storageHistory, clock, status, imageUrl,
                   pending, clearPc, routed, panel>>

handleGenerateFromSidepanel_selectionRejected(a) ==
    /\ pc[a] = "selection"
    /\ handleGenerateFromSidepanel_catch(a)
    /\ UNCHANGED <<storageApiKey, storageHistory, clock, prompt, status, imageUrl,
                   pending, clearPc, routed, panel>>

----------------------------------------------------------------------------
(* Background: generateImage, with callFalAPI and addToHistory inlined at   *)
(* their awaits.                                                            *)

\* a plausible slip: the request is issued before GENERATION_STARTED is sent
generateImage_afterGetApiKey_fetchFirst(a) ==
    /\ pc[a] = "getApiKey"
    /\ IF ApiKeyMissing(storageApiKey)
       THEN Step(a, <<[op |-> "apiKey", value |-> storageApiKey],
                      notifySidepanel(GenerationError(MSG_NO_KEY))>>, "done")
       ELSE Step(a, <<[op |-> "apiKey", value |-> storageApiKey],
                      [op |-> "fetch", prompt |-> prompt[a], apiKey |-> storageApiKey[1]],
                      notifySidepanel(GenerationStarted(prompt[a]))>>,
                 "fetch")
    /\ UNCHANGED <<storageApiKey, storageHistory, clock, prompt, status, imageUrl,
                   pending, clearPc, routed, panel>>

\* a plausible slip: the credential the first attempt read is kept for the later ones
generateImage_afterGetApiKey_cached(a) ==
    /\ pc[a] = "getApiKey"
    /\ LET cached == IF a > 1 /\ \E i \in 1 .. Len(log[1]) : log[1][i].op = "apiKey"
                     THEN log[1][CHOOSE i \in 1 .. Len(log[1]) : log[1][i].op = "apiKey"].value
                     ELSE storageApiKey
       IN  IF ApiKeyMissing(cached)
           THEN Step(a, <<[op |-> "apiKey", value |-> cached],
                          notifySidepanel(GenerationError(MSG_NO_KEY))>>, "done")
           ELSE Step(a, <<[op |-> "apiKey", value |-> cached],
                          notifySidepanel(GenerationStarted(prompt[a])),
                          [op |-> "fetch", prompt |-> prompt[a], apiKey |-> cached[1]]>>,
                     "fetch")
    /\ UNCHANGED <<storageApiKey, storageHistory, clock, prompt, status, imageUrl,
                   pending, clearPc, routed, panel>>

\* getApiKey resolved, with the value stored at that moment
generateImage_afterGetApiKey(a) ==
    /\ pc[a] = "getApiKey"
    /\ IF ApiKeyMissing(storageApiKey)
       THEN Step(a, <<[op |-> "apiKey", value |-> storageApiKey],
                      notifySidepanel(GenerationError(MSG_NO_KEY))>>, "done")
       ELSE Step(a, <<[op |-> "apiKey", value |-> storageApiKey],
                      notifySidepanel(GenerationStarted(prompt[a])),
                      [op |-> "fetch", prompt |-> prompt[a], apiKey |-> storageApiKey[1]]>>,
                 "fetch")
    /\ UNCHANGED <<storageApiKey, storageHistory, clock, prompt, status, imageUrl,
                   pending, clearPc, routed, panel>>

\* the storage read of getApiKey rejected
generateImage_getApiKeyRejected(a) ==
    /\ pc[a] = "getApiKey"
    /\ ThrowAfter(a, <<Did("storageRejected")>>, ErrorOf("Error", MSG_KEY_READ))
    /\ UNCHANGED <<storageApiKey, storageHistory, clock, prompt, status, imageUrl,
                   pending, clearPc, routed, panel>>

\* fetch resolved with a response of status st
callFalAPI_afterFetch(a, st) ==
    /\ pc[a] = "fetch"
    /\ status' = [status EXCEPT ![a] = st]
    /\ IF ~ResponseOk(st)
       THEN Step(a, <<Did("responseText")>>, "errText")
       ELSE Step(a, <<Did("responseJson")>>, "json")
    /\ UNCHANGED <<storageApiKey, storageHistory, clock, prompt, imageUrl,
                   pending, clearPc, routed, panel>>

\* a plausible slip: a rejected request is issued once more before giving up
callFalAPI_fetchRejected_retry(a, error) ==
    /\ pc[a] = "fetch"
    /\ IF \A i \in 1 .. Len(log[a]) : log[a][i].op # "fetchRejected"
       THEN Step(a, <<[op |-> "fetchRejected", error |-> error],
                      [op |-> "fetch", prompt |-> prompt[a],
                       apiKey |-> log[a][Len(log[a])].apiKey]>>, "fetch")
       ELSE callFalAPI_throws(a, [op |-> "fetchRejected", error |-> error],
                              callFalAPI_catch(error))
    /\ UNCHANGED <<storageApiKey, storageHistory, clock, prompt, status, imageUrl,
                   pending, clearPc, routed, panel>>

\* fetch rejected with error
callFalAPI_fetchRejected(a, error) ==
    /\ pc[a] = "fetch"
    /\ callFalAPI_throws(a, [op |-> "fetchRejected", error |-> error],
                         callFalAPI_catch(error))
    /\ UNCHANGED <<storageApiKey, storageHistory, clock, prompt, status, imageUrl,
                   pending, clearPc, routed, panel>>

\* response.text() resolved with errorText, or rejected and response.statusText
\* (errorText again) is used
callFalAPI_afterText(a, errorText) ==
    /\ pc[a] = "errText"
    /\ callFalAPI_throws(a, [op |-> "errorText", status |-> status[a], text |-> errorText],
                         callFalAPI_catch(callFalAPI_notOk(status[a], errorText)))
    /\ UNCHANGED <<storageApiKey, storageHistory, clock, prompt, status, imageUrl,
                   pending, clearPc, routed, panel>>

\* response.json() resolved with data
callFalAPI_afterJson(a, data) ==
    /\ pc[a] = "json"
    /\ LET r == callFalAPI_body(data)
       IN  IF r.ok
           THEN /\ imageUrl' = [imageUrl EXCEPT ![a] = r.value]
                /\ Step(a, <<[op |-> "callFalAPI", data |-> data, imageUrl |-> r.value],
                             Did("historyGet")>>, "histGet")
           ELSE /\ callFalAPI_throws(a, [op |-> "responseBody", data |-> data], r.value)
                /\ UNCHANGED imageUrl
    /\ UNCHANGED <<storageApiKey, storageHistory, clock, prompt, status,
                   pending, clearPc, routed, panel>>

\* response.json() rejected with error
callFalAPI_jsonRejected(a, error) ==
    /\ pc[a] = "json"
    /\ callFalAPI_throws(a, [op |-> "jsonRejected", error |-> error],
                         callFalAPI_catch(error))
    /\ UNCHANGED <<storageApiKey, storageHistory, clock, prompt, status, imageUrl,
                   pending, clearPc, routed, panel>>

----------------------------------------------------------------------------
(* Storage: addToHistory and clearHistory at their awaits.                  *)

\* a direct call addToHistory(p, u), as the sidepanel-independent callers and
\* the unit tests make it, up to its first await
addToHistory_call(a, p, u) ==
    /\ FreeSlot(a)
    /\ clock < MaxInserts
    /\ prompt' = [prompt EXCEPT ![a] = p]
    /\ imageUrl' = [imageUrl EXCEPT ![a] = u]
    /\ pc' = [pc EXCEPT ![a] = "histGet"]
    /\ log' = [log EXCEPT ![a] = <<Did("addToHistory"), Did("historyGet")>>]
    /\ UNCHANGED <<storageApiKey, storageHistory, clock, status, pending, clearPc,
                   routed, panel>>

\* the storage read resolved, with the list stored at that moment: the new
\* item is built, the list capped and the storage write issued
addToHistory_afterGet(a) ==
    /\ pc[a] = "histGet"
    /\ LET newItem == NewHistoryItem(prompt[a], imageUrl[a], clock)
       IN  /\ pending' = [pending EXCEPT ![a] = limitedHistory(storageHistory, newItem)]
           /\ Step(a, <<Did("historyRead"), [op |-> "historySet", item |-> newItem]>>,
                   "histSet")
    /\ clock' = clock + 1
    /\ UNCHANGED <<storageApiKey, storageHistory, prompt, status, imageUrl, clearPc,
                   routed, panel>>

\* the storage read rejected
addToHistory_getRejected(a) ==
    /\ pc[a] = "histGet"
    /\ ThrowAfter(a, <<Did("storageRejected")>>, ErrorOf("Error", MSG_HISTORY_SAVE))
    /\ UNCHANGED <<storageApiKey, storageHistory, clock, prompt, status, imageUrl,
                   pending, clearPc, routed, panel>>

\* the storage write takes effect in the store
addToHistory_setApplied(a) ==
    /\ pc[a] = "histSet"
    /\ storageHistory' = Stored(pending[a])
    /\ Step(a, <<Did("historyWritten")>>, "histWritten")
    /\ UNCHANGED <<storageApiKey, clock, prompt, status, imageUrl, pending, clearPc,
                   routed, panel>>

\* a plausible slip: a failed history write is logged and the image is shown
\* all the same
addToHistory_setRejected_swallowed(a) ==
    /\ pc[a] = "histSet"
    /\ IF IsDirect(a)
       THEN Step(a, <<Did("storageRejected"), Did("returned")>>, "idle")
       ELSE Step(a, <<Did("storageRejected"),
                      notifySidepanel(ImageGenerated(prompt[a], imageUrl[a]))>>, "done")
    /\ UNCHANGED <<storageApiKey, storageHistory, clock, prompt, status, imageUrl,
                   pending, clearPc, routed, panel>>

\* the storage write rejected, without effect
addToHistory_setRejected(a) ==
    /\ pc[a] = "histSet"
    /\ ThrowAfter(a, <<Did("storageRejected")>>, ErrorOf("Error", MSG_HISTORY_SAVE))
    /\ UNCHANGED <<storageApiKey, storageHistory, clock, prompt, status, imageUrl,
                   pending, clearPc, routed, panel>>

\* the storage write resolved: addToHistory returns, and generateImage sends
\* IMAGE_GENERATED
addToHistory_afterSet(a) ==
    /\ pc[a] = "histWritten"
    /\ IF IsDirect(a)
       THEN Step(a, <<Did("returned")>>, "idle")
       ELSE Step(a, <<Did("addToHistoryReturned"),
                      notifySidepanel(ImageGenerated(prompt[a], imageUrl[a]))>>, "done")
    /\ UNCHANGED <<storageApiKey, storageHistory, clock, prompt, status, imageUrl,
                   pending, clearPc, routed, panel>>

\* clearHistory() (and the sidepanel's handleClearHistory) up to the await
clearHistory_call ==
    /\ clearPc = "idle"
    /\ clearPc' = "set"
    /\ UNCHANGED <<storageApiKey, storageHistory, clock, pc, prompt, status, imageUrl,
                   pending, log, routed, panel>>

clearHistory_setApplied ==
    /\ clearPc = "set"
    /\ storageHistory' = Stored(<<>>)
    /\ clearPc' = "applied"
    /\ UNCHANGED <<storageApiKey, clock, pc, prompt, status, imageUrl,
                   pending, log, routed, panel>>

clearHistory_afterSet ==
    /\ clearPc = "applied"
    /\ clearPc' = "idle"
    /\ UNCHANGED <<storageApiKey, storageHistory, clock, pc, prompt, status, imageUrl,
                   pending, log, routed, panel>>

\* the write rejected: clearHistory throws 'Failed to clear history'
clearHistory_setRejected ==
    /\ clearPc = "set"
    /\ clearPc' = "idle"
    /\ UNCHANGED <<storageApiKey, storageHistory, clock, pc, prompt, status, imageUrl,
                   pending, log, routed, panel>>

----------------------------------------------------------------------------
(* Storage: the utilities called on their own, each up to its await and    *)
(* from it.  A call runs in a slot; when it has settled, the last entry of  *)
(* its log is what it returned or the error it threw.                       *)

\* the call in slot a begins: it notes the call and suspends at await next
Call(a, entry, next) ==
    /\ FreeSlot(a)
    /\ pc' = [pc EXCEPT ![a] = next]
    /\ log' = [log EXCEPT ![a] = <<entry>>]

\* the call returns value
Return(a, value) == Step(a, <<[op |-> "returned", value |-> value]>>, "idle")

\* the storage call rejected: the catch block throws new Error(message)
Throw(a, message) ==
    Step(a, <<Did("storageRejected"),
              [op |-> "rejected", error |-> ErrorOf("Error", message)]>>, "idle")

----------------------------------------------------------------------------
(* Background: the context menu.                                            *)

\* info.selectionText and tab?.id as conditions: undefined, '' and 0 are falsy
TruthyText(text) == text # Absent /\ StrLen(text[1]) > 0
TruthyTabId(tab) == tab # Absent /\ tab[1].id # Absent /\ tab[1].id[1] # 0

\* a plausible slip: the selection text is not looked at
contextMenus_onClicked_anySelection(a, info, tab) ==
    /\ FreeSlot(a)
    /\ IF info.menuItemId = "generate-image" /\ TruthyTabId(tab)
       THEN /\ pc' = [pc EXCEPT ![a] = "panelOpen"]
            /\ log' = [log EXCEPT ![a] =
                          <<[op |-> "contextMenuClicked", info |-> info, tab |-> tab],
                            [op |-> "sidePanelOpen", tabId |-> tab[1].id[1]]>>]
       ELSE /\ log' = [log EXCEPT ![a] =
                          <<[op |-> "contextMenuClicked", info |-> info, tab |-> tab]>>]
            /\ UNCHANGED pc
    /\ UNCHANGED <<storageApiKey, storageHistory, clock, prompt, status, imageUrl,
                   pending, clearPc, routed, panel>>

\* chrome.contextMenus.onClicked listener, up to await chrome.sidePanel.open
contextMenus_onClicked(a, info, tab) ==
    /\ FreeSlot(a)
    /\ IF info.menuItemId = "generate-image" /\ TruthyText(info.selectionText)
          /\ TruthyTabId(tab)
       THEN /\ pc' = [pc EXCEPT ![a] = "panelOpen"]
            /\ log' = [log EXCEPT ![a] =
                          <<[op |-> "contextMenuClicked", info |-> info, tab |-> tab],
                            [op |-> "sidePanelOpen", tabId |-> tab[1].id[1]]>>]
       ELSE /\ log' = [log EXCEPT ![a] =
                          <<[op |-> "contextMenuClicked", info |-> info, tab |-> tab]>>]
            /\ UNCHANGED pc
    /\ UNCHANGED <<storageApiKey, storageHistory, clock, prompt, status, imageUrl,
                   pending, clearPc, routed, panel>>

\* chrome.sidePanel.open resolved
contextMenus_onClicked_afterOpen(a) ==
    /\ pc[a] = "panelOpen"
    /\ Step(a, <<Did("sidePanelOpened")>>, "idle")
    /\ UNCHANGED <<storageApiKey, storageHistory, clock, prompt, status, imageUrl,
                   pending, clearPc, routed, panel>>

\* chrome.sidePanel.open rejected: the catch block logs the error
contextMenus_onClicked_openRejected(a) ==
    /\ pc[a] = "panelOpen"
    /\ Step(a, <<Did("openRejected"), Did("caught")>>, "idle")
    /\ UNCHANGED <<storageApiKey, storageHistory, clock, prompt, status, imageUrl,
                   pending, clearPc, routed, panel>>

\* saveApiKey(apiKey) up to its await: an invalid key is thrown back before
\* storage is touched
saveApiKey(a, apiKey) ==
    /\ IF ~validateApiKeyFormat(apiKey)
       THEN /\ FreeSlot(a)
            /\ log' = [log EXCEPT ![a] =
                          <<[op |-> "saveApiKey", apiKey |-> apiKey],
                            [op |-> "rejected", error |-> ErrorOf("Error", MSG_KEY_FORMAT)]>>]
            /\ UNCHANGED pc
       ELSE Call(a, [op |-> "saveApiKey", apiKey |-> apiKey], "keySet")
    /\ UNCHANGED <<storageApiKey, storageHistory, clock, prompt, status, imageUrl,
                   pending, clearPc, routed, panel>>

\* chrome.storage.local.set({ apiKey }) resolved, for saveApiKey and for the
\* sidepanel's handleSaveApiKey
saveApiKey_afterSet(a) ==
    /\ pc[a] = "keySet"
    /\ storageApiKey' = Stored(log[a][1].apiKey)
    /\ IF log[a][1].op = "saveApiKey"
       THEN Return(a, <<>>)
       ELSE Step(a, <<[op |-> "showSuccessInModal",
                       message |-> <<"API key saved successfully!">>]>>, "idle")
    /\ UNCHANGED <<storageHistory, clock, prompt, status, imageUrl,
                   pending, clearPc, routed, panel>>

\* chrome.storage.local.set({ apiKey }) rejected
saveApiKey_setRejected(a) ==
    /\ pc[a] = "keySet"
    /\ IF log[a][1].op = "saveApiKey"
       THEN Throw(a, MSG_KEY_SAVE)
       ELSE Step(a, <<Did("storageRejected"),
                      [op |-> "showErrorInModal",
                       message |-> <<"Failed to save API key. Please try again.">>]>>, "idle")
    /\ UNCHANGED <<storageApiKey, storageHistory, clock, prompt, status, imageUrl,
                   pending, clearPc, routed, panel>>

\* getApiKey() and hasApiKey(), which awaits getApiKey(): up to the await
getApiKey(a, fn) ==
    /\ Call(a, Did(fn), "keyGet")
    /\ UNCHANGED <<storageApiKey, storageHistory, clock, prompt, status, imageUrl,
                   pending, clearPc, routed, panel>>

\* a plausible slip: only undefined is tested, an empty string counts as a key
hasApiKey_defined(apiKey) == apiKey # Absent

\* hasApiKey's test of what getApiKey returned
hasApiKey(apiKey) == apiKey # Absent /\ StrLen(apiKey[1]) > 0

getApiKey_afterGet(a) ==
    /\ pc[a] = "keyGet"
    /\ IF log[a][1].op = "getApiKey"
       THEN Return(a, storageApiKey)
       ELSE Return(a, hasApiKey(storageApiKey))
    /\ UNCHANGED <<storageApiKey, storageHistory, clock, prompt, status, imageUrl,
                   pending, clearPc, routed, panel>>

getApiKey_getRejected(a) ==
    /\ pc[a] = "keyGet"
    /\ Throw(a, MSG_KEY_READ)
    /\ UNCHANGED <<storageApiKey, storageHistory, clock, prompt, status, imageUrl,
                   pending, clearPc, routed, panel>>

\* removeApiKey() up to its await
removeApiKey(a) ==
    /\ Call(a, Did("removeApiKey"), "keyRemove")
    /\ UNCHANGED <<storageApiKey, storageHistory, clock, prompt, status, imageUrl,
                   pending, clearPc, routed, panel>>

removeApiKey_afterRemove(a) ==
    /\ pc[a] = "keyRemove"
    /\ storageApiKey' = Absent
    /\ Return(a, <<>>)
    /\ UNCHANGED <<storageHistory, clock, prompt, status, imageUrl,
                   pending, clearPc, routed, panel>>

removeApiKey_removeRejected(a) ==
    /\ pc[a] = "keyRemove"
    /\ Throw(a, MSG_KEY_REMOVE)
    /\ UNCHANGED <<storageApiKey, storageHistory, clock, prompt, status, imageUrl,
                   pending, clearPc, routed, panel>>

\* getHistory() up to its await
getHistory_call(a) ==
    /\ Call(a, Did("getHistory"), "histRead")
    /\ UNCHANGED <<storageApiKey, storageHistory, clock, prompt, status, imageUrl,
                   pending, clearPc, routed, panel>>

getHistory_afterGet(a) ==
    /\ pc[a] = "histRead"
    /\ Return(a, getHistory(storageHistory))
    /\ UNCHANGED <<storageApiKey, storageHistory, clock, prompt, status, imageUrl,
                   pending, clearPc, routed, panel>>

getHistory_getRejected(a) ==
    /\ pc[a] = "histRead"
    /\ Throw(a, MSG_HISTORY_READ)
    /\ UNCHANGED <<storageApiKey, storageHistory, clock, prompt, status, imageUrl,
                   pending, clearPc, routed, panel>>

\* clearHistory() awaited by its caller: up to the await, and from it
clearHistory_awaited(a) ==
    /\ Call(a, Did("clearHistory"), "histClear")
    /\ UNCHANGED <<storageApiKey, storageHistory, clock, prompt, status, imageUrl,
                   pending, clearPc, routed, panel>>

\* a plausible slip: the most recent item survives the clearing
clearHistory_awaited_afterSet_keepLatest(a) ==
    /\ pc[a] = "histClear"
    /\ storageHistory' = Stored(Slice0(HistoryOrDefault(storageHistory), 1))
    /\ Return(a, <<>>)
    /\ UNCHANGED <<storageApiKey, clock, prompt, status, imageUrl,
                   pending, clearPc, routed, panel>>

clearHistory_awaited_afterSet(a) ==
    /\ pc[a] = "histClear"
    /\ storageHistory' = Stored(<<>>)
    /\ Return(a, <<>>)
    /\ UNCHANGED <<storageApiKey, clock, prompt, status, imageUrl,
                   pending, clearPc, routed, panel>>

clearHistory_awaited_setRejected(a) ==
    /\ pc[a] = "histClear"
    /\ Throw(a, MSG_HISTORY_CLEAR)
    /\ UNCHANGED <<storageApiKey, storageHistory, clock, prompt, status, imageUrl,
                   pending, clearPc, routed, panel>>

----------------------------------------------------------------------------
(* Sidepanel commands.                                                      *)

showLoadingState(p) ==
    [panel EXCEPT !.view = "loading", !.prompt = p, !.imageUrl = "", !.error = <<>>,
                  !.disabled = TRUE, !.retry = FALSE]

displayGeneratedImage(p, u) ==
    [panel EXCEPT !.view = "image", !.prompt = p, !.imageUrl = u, !.error = <<>>,
                  !.disabled = FALSE, !.retry = FALSE]

\* the Retry button is rendered when lastFailedPrompt is truthy
showError(errorMessage) ==
    [panel EXCEPT !.view = "error", !.prompt = <<>>, !.imageUrl = "",
                  !.error = errorMessage, !.disabled = FALSE,
                  !.retry = panel.lastFailedPrompt # Absent
                            /\ panel.lastFailedPrompt[1] # EmptyStr]

\* loadHistory with its storage read resolved: the items of the grid
loadHistory(entry) ==
    [i \in 1 .. Len(HistoryOrDefault(entry)) |->
        [prompt |-> HistoryOrDefault(entry)[i].prompt,
         imageUrl |-> HistoryOrDefault(entry)[i].imageUrl]]

\* addToHistoryUI: container.insertBefore(historyItem, container.firstChild)
addToHistoryUI(items, p, u) == <<[prompt |-> p, imageUrl |-> u]>> \o items

\* handleSaveApiKey with the text of the API key input, up to its await
handleSaveApiKey(a, inputValue) ==
    /\ LET apiKey == Trim(inputValue)
       IN  IF ~validateApiKeyFormat(apiKey)
           THEN /\ FreeSlot(a)
                /\ log' = [log EXCEPT ![a] =
                      <<[op |-> "handleSaveApiKey", apiKey |-> apiKey],
                        [op |-> "showErrorInModal",
                         message |-> <<"Invalid API key format",
                                       ". Please provide a valid FAL API key ",
                                       "(minimum 10 characters).">>]>>]
                /\ UNCHANGED pc
           ELSE Call(a, [op |-> "handleSaveApiKey", apiKey |-> apiKey], "keySet")
    /\ UNCHANGED <<storageApiKey, storageHistory, clock, prompt, status, imageUrl,
                   pending, clearPc, routed, panel>>

\* a plausible slip: the prompt is sent as typed
handleGenerateFromInput_untrimmed(inputValue) ==
    IF Trim(inputValue) = EmptyStr
    THEN /\ panel' = showError(<<"Please enter some text to generate an image.">>)
         /\ UNCHANGED <<storageApiKey, storageHistory, clock, pc, prompt, status,
                        imageUrl, pending, log, clearPc, routed>>
    ELSE IF ApiKeyMissing(storageApiKey)
    THEN /\ panel' = showError(MSG_NO_KEY)
         /\ UNCHANGED <<storageApiKey, storageHistory, clock, pc, prompt, status,
                        imageUrl, pending, log, clearPc, routed>>
    ELSE OnMessage([type |-> "GENERATE_FROM_PROMPT", prompt |-> inputValue])

\* handleGenerateFromInput with the text of the prompt input; a sent message
\* is received by the background's listener
handleGenerateFromInput(inputValue) ==
    LET p == Trim(inputValue)
    IN  IF p = EmptyStr
        THEN /\ panel' = showError(<<"Please enter some text to generate an image.">>)
             /\ UNCHANGED <<storageApiKey, storageHistory, clock, pc, prompt, status,
                            imageUrl, pending, log, clearPc, routed>>
        ELSE IF ApiKeyMissing(storageApiKey)
        THEN /\ panel' = showError(MSG_NO_KEY)
             /\ UNCHANGED <<storageApiKey, storageHistory, clock, pc, prompt, status,
                            imageUrl, pending, log, clearPc, routed>>
        ELSE OnMessage([type |-> "GENERATE_FROM_PROMPT", prompt |-> p])

\* a click on the generate button, which only an enabled button takes, with
\* handleGenerateClick's storage read resolved; a sent message is received by
\* the background's listener
handleGenerateClick ==
    /\ ~panel.disabled
    /\ IF ApiKeyMissing(storageApiKey)
       THEN /\ panel' = showError(MSG_NO_KEY)
            /\ UNCHANGED <<storageApiKey, storageHistory, clock, pc, prompt, status,
                           imageUrl, pending, log, clearPc, routed>>
       ELSE OnMessage([type |-> "GENERATE_FROM_SIDEPANEL"])

\* a click on the Retry button of the error on display: the handler showError
\* attached
handleRetryClick ==
    /\ panel.view = "error" /\ panel.retry
    /\ OnMessage([type |-> "GENERATE_FROM_SIDEPANEL"])

\* the click, with handleGenerateClick's storage read rejected
handleGenerateClick_getRejected ==
    /\ ~panel.disabled
    /\ panel' = showError(<<"Failed to trigger generation. Please try again.">>)
    /\ UNCHANGED <<storageApiKey, storageHistory, clock, pc, prompt, status,
                   imageUrl, pending, log, clearPc, routed>>

----------------------------------------------------------------------------
(* Delivery of the lifecycle messages.  notifySidepanel does not await     *)
(* chrome.runtime.sendMessage: the promise settles later, and a rejection   *)
(* is handled by the .catch callback, which logs it.                        *)

IsSent(e) == e.op = "notify"

IsSettled(e) == e.op \in {"delivered", "deliveryFailed"}

\* the call in slot a sent a message whose sendMessage promise has not settled
Outstanding(a) == Len(SelectSeq(log[a], IsSent)) > Len(SelectSeq(log[a], IsSettled))

\* the oldest such message
NextToSettle(a) == SelectSeq(log[a], IsSent)[Len(SelectSeq(log[a], IsSettled)) + 1].msg

\* the sidepanel's listener, on a lifecycle message: what the current-generation
\* area shows afterwards
sidepanelOnMessage(message) ==
    CASE message.type = "GENERATION_STARTED" ->
            [showLoadingState(message.prompt)
                EXCEPT !.lastFailedPrompt = Stored(message.prompt)]
      [] message.type = "IMAGE_GENERATED" ->
            [displayGeneratedImage(message.prompt, message.imageUrl)
                EXCEPT !.lastFailedPrompt = Absent,
                       !.history = addToHistoryUI(panel.history, message.prompt,
                                                  message.imageUrl)]
      [] message.type = "GENERATION_ERROR" -> showError(message.error)
      [] OTHER -> panel

\* the sidepanel is open and receives the message
sendMessage_delivered(a) ==
    /\ Outstanding(a)
    /\ panel' = sidepanelOnMessage(NextToSettle(a))
    /\ log' = [log EXCEPT ![a] = Append(@, [op |-> "delivered", msg |-> NextToSettle(a)])]
    /\ UNCHANGED <<storageApiKey, storageHistory, clock, pc, prompt, status, imageUrl,
                   pending, clearPc, routed>>

\* a plausible slip: notifySidepanel is awaited without .catch inside
\* generateImage's try block, so that the rejection reaches its catch block
sendMessage_rejected_escalates(a) ==
    /\ Outstanding(a)
    /\ IF pc[a] # "done"
       THEN ThrowAfter(a, <<[op |-> "deliveryFailed", msg |-> NextToSettle(a)]>>,
                       ErrorOf("Error", <<"Could not establish connection. ",
                                          "Receiving end does not exist.">>))
       ELSE Step(a, <<[op |-> "deliveryFailed", msg |-> NextToSettle(a)]>>, pc[a])
    /\ UNCHANGED <<storageApiKey, storageHistory, clock, prompt, status, imageUrl,
                   pending, clearPc, routed, panel>>

\* no sidepanel is listening: the promise rejects and the .catch callback logs
sendMessage_rejected(a) ==
    /\ Outstanding(a)
    /\ log' = [log EXCEPT ![a] = Append(@, [op |-> "deliveryFailed",
                                            msg |-> NextToSettle(a)])]
    /\ UNCHANGED <<storageApiKey, storageHistory, clock, pc, prompt, status, imageUrl,
                   pending, clearPc, routed, panel>>

----------------------------------------------------------------------------
(* Inputs.                                                                  *)

\* stored credentials: valid, shorter than 10 characters, whitespace only, empty
KeyValid == <<Run("k", 10)>>
KeyShort == <<Run("k", 9)>>
KeyBlank == <<Run(" ", 3)>>

\* another valid credential, and one with surrounding whitespace
KeyOther == <<Run("k", 5), Run("z", 6)>>
KeyPadded == <<Run(" ", 1), Run("k", 10), Run(" ", 2)>>

\* what is passed to saveApiKey or typed into the API key input
KeyInputs == {EmptyStr, KeyBlank, KeyShort, KeyPadded, KeyValid, KeyOther}

\* the prompt of the n-th direct call of addToHistory: n times the letter a
PromptNo(n) == <<Run("a", n)>>

GoodUrl == "https://fal.media/x.jpg"
OtherUrl == "https://fal.media/y.jpg"

\* a stored history of k items, as k calls of addToHistory leave it
Prefill(k) == [i \in 1 .. k |-> NewHistoryItem(PromptNo(k - i + 1), OtherUrl, k - i)]

\* raw page selections
SelBlank == <<Run(" ", 2)>>
SelShort == <<Run(" ", 1), Run("a", 3), Run(" ", 1)>>
SelTwoWords == <<Run("a", 2), Run(" ", 1), Run("b", 2)>>
SelExact == <<Run("a", MAX_TEXT_LENGTH)>>
SelLong == <<Run("a", MAX_TEXT_LENGTH + 500)>>

\* the string of the given runs: empty runs dropped, equal neighbours joined
RECURSIVE Compact(_)
Compact(runs) ==
    IF runs = <<>> THEN <<>>
    ELSE IF Head(runs).n = 0 THEN Compact(Tail(runs))
    ELSE LET rest == Compact(Tail(runs))
         IN  IF rest # <<>> /\ Head(rest).c = Head(runs).c
             THEN <<Run(Head(runs).c, Head(runs).n + Head(rest).n)>> \o Tail(rest)
             ELSE <<Head(runs)>> \o rest

\* page selections: a word of a's (none, one, around the limit, far beyond
\* it), possibly a space and a word of b's, with spaces before and after
PageSelections ==
    {Compact(<<Run(" ", l), Run("a", n), Run(" ", i), Run("b", m), Run(" ", t)>>) :
        l \in 0 .. 2, n \in {0, 1, MAX_TEXT_LENGTH - 1, MAX_TEXT_LENGTH,
                              MAX_TEXT_LENGTH + 1, MAX_TEXT_LENGTH + 500},
        i \in 0 .. 1, m \in 0 .. 2, t \in 0 .. 2}

RawSelections == {SelBlank, SelShort}
AllRawSelections == {EmptyStr, SelBlank, SelShort, SelTwoWords, SelExact, SelLong}

\* what chrome.tabs.sendMessage resolves with
Responses(raws) == {Stored(GetCurrentSelectionResponse(r)) : r \in raws}

\* a response that reports an invalid selection and gives no reason (the error
\* field of the response is optional)
InvalidNoReason ==
    [text |-> EmptyStr, isValid |-> FALSE, wasTruncated |-> FALSE, error |-> <<>>]

TabsResults == {"none", "tab"}
AllTabsResults == {"none", "noId", "tab"}

Statuses == {200, 500}
AllStatuses == {200, 201, 302, 400, 401, 403, 404, 429, 500, 503}

ErrorTexts == {""}
AllErrorTexts == {"", "detail"}

GoodData == DataObject(ImagesArray(<<EntryObject(UrlString(GoodUrl))>>))

Bodies == {GoodData, DataObject(ImagesArray(<<>>))}
AllBodies ==
    {DataNull, DataPrimitive, DataObject(ImagesMissing), DataObject(ImagesFalsy),
     DataObject(ImagesNotArray), DataObject(ImagesArray(<<>>)),
     DataObject(ImagesArray(<<EntryNull>>)), DataObject(ImagesArray(<<EntryPrimitive>>)),
     DataObject(ImagesArray(<<EntryObject(UrlUndefined)>>)),
     DataObject(ImagesArray(<<EntryObject(UrlString(GoodUrl)),
                              EntryObject(UrlString(OtherUrl))>>))}
      \cup {DataObject(ImagesArray(<<EntryObject(UrlString(t))>>)) : t \in UrlTexts}

FetchErrors == {ErrorOf("TypeError", <<"Failed to fetch">>)}
AllFetchErrors ==
    {ErrorOf("TypeError", <<"Failed to fetch">>),
     ErrorOf("TypeError", <<"Load failed">>),
     ErrorOf("DOMException", <<"The operation was aborted.">>)}

JsonErrors == {ErrorOf("SyntaxError", <<"Unexpected token < in JSON at position 0">>)}
AllJsonErrors == JsonErrors \cup {ErrorOf("DOMException", <<"The operation was aborted.">>)}

GenerateFromSidepanel == [type |-> "GENERATE_FROM_SIDEPANEL"]

\* the other messages that reach the background's listener
OtherMessages ==
    {[type |-> "TEXT_SELECTED"], [type |-> "GET_CURRENT_SELECTION"],
     [type |-> "GENERATION_STARTED"], [type |-> "IMAGE_GENERATED"],
     [type |-> "GENERATION_ERROR"], [type |-> "UNKNOWN"]}

\* clicks on a context menu item: the item, the selection Chrome reports (none,
\* empty, blank, a word) and the tab (none, one without id, two with ids)
MenuInfos ==
    [menuItemId : {"generate-image", "other-item"},
     selectionText : {Absent, Stored(EmptyStr), Stored(SelBlank), Stored(<<Run("a", 3)>>)}]

MenuTabs == {Absent, Stored([id |-> Absent]), Stored([id |-> Stored(1)]),
             Stored([id |-> Stored(2)])}

\* what the user typed into the prompt input
InputValues == {EmptyStr, SelBlank, SelShort}

----------------------------------------------------------------------------
(* Specifications.                                                          *)

InitCalls ==
    /\ clock = Len(HistoryOrDefault(storageHistory))
    /\ pc = [a \in Attempts |-> "idle"]
    /\ prompt = [a \in Attempts |-> EmptyStr]
    /\ status = [a \in Attempts |-> NoStatus]
    /\ imageUrl = [a \in Attempts |-> ""]
    /\ pending = [a \in Attempts |-> <<>>]
    /\ log = [a \in Attempts |-> <<>>]
    /\ clearPc = "idle"
    /\ routed = NoMessage
    /\ panel = [PanelEmpty EXCEPT !.history = loadHistory(storageHistory)]

\* The store outlives the service worker: it starts empty, or as earlier runs
\* left it.
Init ==
    /\ storageApiKey \in {Absent, Stored(KeyValid)}
    /\ storageHistory \in {Absent, Stored(Prefill(MAX_HISTORY_SIZE - 1))}
    /\ InitCalls

\* the steps of the call in slot a, with the environment's answers drawn from
\* the given sets
CallSteps(a, tabsResults, responses, statuses, errorTexts, bodies, fetchErrors, jsonErrors) ==
    \/ \E t \in tabsResults : handleGenerateFromSidepanel_afterQuery(a, t)
    \/ handleGenerateFromSidepanel_queryRejected(a)
    \/ \E r \in responses : handleGenerateFromSidepanel_afterSelection(a, r)
    \/ handleGenerateFromSidepanel_selectionRejected(a)
    \/ generateImage_afterGetApiKey(a)
    \/ generateImage_getApiKeyRejected(a)
    \/ \E st \in statuses : callFalAPI_afterFetch(a, st)
    \/ \E e \in fetchErrors : callFalAPI_fetchRejected(a, e)
    \/ \E t \in errorTexts : callFalAPI_afterText(a, t)
    \/ \E d \in bodies : callFalAPI_afterJson(a, d)
    \/ \E e \in jsonErrors : callFalAPI_jsonRejected(a, e)
    \/ addToHistory_afterGet(a)
    \/ addToHistory_getRejected(a)
    \/ addToHistory_setApplied(a)
    \/ addToHistory_setRejected(a)
    \/ addToHistory_afterSet(a)

ClearSteps ==
    \/ clearHistory_call
    \/ clearHistory_setApplied
    \/ clearHistory_afterSet
    \/ clearHistory_setRejected

AttemptSteps(a) ==
    CallSteps(a, TabsResults, Responses(RawSelections), Statuses, ErrorTexts,
              Bodies, FetchErrors, JsonErrors)

\* Overlapping generation attempts.
NextGen ==
    \/ OnMessage(GenerateFromSidepanel)
    \/ \E a \in Attempts : AttemptSteps(a)

SpecGen == Init /\ [][NextGen]_vars

\* Overlapping generation attempts and a clearHistory call.
Next ==
    \/ NextGen
    \/ ClearSteps

Spec == Init /\ [][Next]_vars

\* Every external call (tab query, selection round-trip, storage access, HTTP
\* request, body read) eventually resolves or rejects.
InitFair ==
    /\ storageApiKey \in {Absent, Stored(KeyValid)}
    /\ storageHistory = Absent
    /\ InitCalls

FairSpec == InitFair /\ [][NextGen]_vars /\ \A a \in Attempts : WF_vars(AttemptSteps(a))

\* One generation attempt, every answer of the environment, every message and
\* the sidepanel's prompt input.
InitOne ==
    /\ storageApiKey \in {Absent, Stored(EmptyStr), Stored(KeyBlank), Stored(KeyShort),
                          Stored(KeyValid)}
    /\ storageHistory \in {Absent, Stored(Prefill(MAX_HISTORY_SIZE))}
    /\ InitCalls

NextOne ==
    \/ \E m \in {GenerateFromSidepanel} \cup OtherMessages :
          /\ m.type = "GENERATE_FROM_SIDEPANEL" => pc[1] = "idle"
          /\ OnMessage(m)
    \/ \E v \in InputValues : handleGenerateFromInput(v)
    \/ CallSteps(1, AllTabsResults,
                 Responses(AllRawSelections) \cup {Absent, Stored(InvalidNoReason)},
                 AllStatuses,
                 AllErrorTexts, AllBodies, AllFetchErrors, AllJsonErrors)

SpecOne == InitOne /\ [][NextOne]_vars

\* One generation attempt whose lifecycle messages are delivered to an open
\* sidepanel or fail to be delivered.
InitDeliver ==
    /\ storageApiKey \in {Absent, Stored(KeyValid)}
    /\ storageHistory = Absent
    /\ InitCalls

NextDeliver ==
    \/ pc[1] = "idle" /\ OnMessage(GenerateFromSidepanel)
    \/ AttemptSteps(1)
    \/ sendMessage_delivered(1)
    \/ sendMessage_rejected(1)

SpecDeliver == InitDeliver /\ [][NextDeliver]_vars

\* Overlapping attempts with a credential stored, whose API calls are answered
\* with an error status and any error text.
InitPair ==
    /\ storageApiKey = Stored(KeyValid)
    /\ storageHistory = Absent
    /\ InitCalls

NextPair ==
    \/ OnMessage(GenerateFromSidepanel)
    \/ \E a \in Attempts :
          CallSteps(a, {"tab"}, Responses({SelShort}), {200, 404, 500}, AllErrorTexts,
                    {GoodData}, FetchErrors, JsonErrors)

SpecPair == InitPair /\ [][NextPair]_vars

\* Direct calls of addToHistory, one after another, on a store never written.
InitSeq ==
    /\ storageApiKey = Absent
    /\ storageHistory = Absent
    /\ InitCalls

NextSeq ==
    \/ addToHistory_call(1, PromptNo(clock + 1), GoodUrl)
    \/ addToHistory_afterGet(1)
    \/ addToHistory_setApplied(1)
    \/ addToHistory_afterSet(1)

SpecSeq == InitSeq /\ [][NextSeq]_vars

\* The credential utilities called on their own, with any key.
KeySteps(a) ==
    \/ \E k \in KeyInputs : saveApiKey(a, k)
    \/ \E k \in KeyInputs : handleSaveApiKey(a, k)
    \/ saveApiKey_afterSet(a)
    \/ saveApiKey_setRejected(a)
    \/ \E fn \in {"getApiKey", "hasApiKey"} : getApiKey(a, fn)
    \/ getApiKey_afterGet(a)
    \/ getApiKey_getRejected(a)
    \/ removeApiKey(a)
    \/ removeApiKey_afterRemove(a)
    \/ removeApiKey_removeRejected(a)

\* Two call slots, each running generation attempts or calls of the credential
\* utilities, overlapping, on a store that holds no credential.
StoreSlots == {1, 2}

InitStore ==
    /\ storageApiKey = Absent
    /\ storageHistory = Absent
    /\ InitCalls

NextStore ==
    \/ pc[2] = "idle" /\ OnMessage(GenerateFromSidepanel)
    \/ \E a \in StoreSlots : AttemptSteps(a)
    \/ \E a \in StoreSlots : KeySteps(a)

SpecStore == InitStore /\ [][NextStore]_vars

\* Calls of the credential utilities, one after another, on a store as any
\* earlier writer left it.
InitCred ==
    /\ storageApiKey \in {Absent, Stored(EmptyStr), Stored(KeyShort)}
    /\ storageHistory = Absent
    /\ InitCalls

NextCred == KeySteps(1)

SpecCred == InitCred /\ [][NextCred]_vars

\* Calls of the history utilities and one generation attempt, one after
\* another, on a history never initialised or empty.  Direct calls of
\* addToHistory are made while fewer items than MaxHistInserts were created.
MaxHistInserts == 4

InitHist ==
    /\ storageApiKey = Stored(KeyValid)
    /\ storageHistory \in {Absent, Stored(<<>>)}
    /\ InitCalls

NextHist ==
    \/ pc[1] = "idle" /\ OnMessage(GenerateFromSidepanel)
    \/ AttemptSteps(1)
    \/ clock < MaxHistInserts /\ addToHistory_call(1, PromptNo(clock + 1), GoodUrl)
    \/ getHistory_call(1)
    \/ getHistory_afterGet(1)
    \/ getHistory_getRejected(1)
    \/ clearHistory_awaited(1)
    \/ clearHistory_awaited_afterSet(1)
    \/ clearHistory_awaited_setRejected(1)

SpecHist == InitHist /\ [][NextHist]_vars

\* An open sidepanel whose generate button is clicked whenever it is enabled,
\* two call slots for the attempts, and every lifecycle message delivered to
\* the sidepanel as soon as it is sent, so that the messages arrive in the
\* order in which they were sent.
InitPanel ==
    /\ storageApiKey \in {Absent, Stored(KeyValid)}
    /\ storageHistory = Absent
    /\ InitCalls

AllDelivered == \A a \in Attempts : ~Outstanding(a)

NextPanel ==
    \/ AllDelivered /\ pc[2] = "idle" /\ handleGenerateClick
    \/ AllDelivered /\ handleGenerateClick_getRejected
    \/ AllDelivered /\ \E a \in StoreSlots :
          CallSteps(a, {"tab"}, Responses({SelShort, SelTwoWords}), Statuses, ErrorTexts,
                    Bodies, FetchErrors, JsonErrors)
    \/ \E a \in StoreSlots : sendMessage_delivered(a)

SpecPanel == InitPanel /\ [][NextPanel]_vars

\* The open sidepanel with both of its generation commands: the generate
\* button and the prompt input.
NextCommand ==
    \/ NextPanel
    \/ \E v \in InputValues : handleGenerateFromInput(v)

SpecCommand == InitPanel /\ [][NextCommand]_vars

\* The open sidepanel, a generation started with the generate button and,
\* once it has failed, the Retry button of the error on display: the attempt
\* in slot 1 is the generate button's, the one in slot 2 the Retry button's.
\* The page's selection is whatever it is when the content script is asked.
NextRetry ==
    \/ pc[1] = "idle" /\ handleGenerateClick
    \/ pc[1] = "idle" /\ handleGenerateClick_getRejected
    \/ AllDelivered /\ pc[1] = "done" /\ pc[2] = "idle" /\ handleRetryClick
    \/ \E a \in StoreSlots :
          CallSteps(a, {"tab"}, Responses({SelShort, SelTwoWords}), Statuses, ErrorTexts,
                    Bodies, FetchErrors, JsonErrors)
    \/ \E a \in StoreSlots : sendMessage_delivered(a)

SpecRetry == InitPanel /\ [][NextRetry]_vars

\* The sidepanel opened on a stored history (none, one below the cap, a full
\* one), and generations from then on.
InitGrid ==
    /\ storageApiKey = Stored(KeyValid)
    /\ storageHistory \in {Absent, Stored(Prefill(MAX_HISTORY_SIZE - 1)),
                           Stored(Prefill(MAX_HISTORY_SIZE))}
    /\ InitCalls

SpecGrid == InitGrid /\ [][NextPanel]_vars

\* Context menu clicks alongside a generation attempt.
MenuSteps(a) ==
    \/ \E info \in MenuInfos, tab \in MenuTabs : contextMenus_onClicked(a, info, tab)
    \/ contextMenus_onClicked_afterOpen(a)
    \/ contextMenus_onClicked_openRejected(a)

NextMenu ==
    \/ pc[2] = "idle" /\ OnMessage(GenerateFromSidepanel)
    \/ \E a \in StoreSlots : AttemptSteps(a)
    \/ \E a \in StoreSlots : MenuSteps(a)

SpecMenu == InitPanel /\ [][NextMenu]_vars

\* The content script answering the messages it receives, on any page selection.
NextSelect ==
    \E m \in {[type |-> "GET_CURRENT_SELECTION"], [type |-> "TEXT_SELECTED"]} :
        \E rawText \in PageSelections :
            /\ log' = [log EXCEPT ![1] = contentOnMessage(m, rawText)]
            /\ UNCHANGED <<storageApiKey, storageHistory, clock, pc, prompt, status,
                           imageUrl, pending, clearPc, routed, panel>>

SpecSelect == InitSeq /\ [][NextSelect]_vars

----------------------------------------------------------------------------
(* Reading a call's log.                                                    *)

IsNotify(e) == e.op = "notify"

\* the lifecycle messages the call in slot a sent, in order
Events(a) ==
    LET n == SelectSeq(log[a], IsNotify)
    IN  [i \in 1 .. Len(n) |-> n[i].msg]

EventTypes(a) == [i \in 1 .. Len(Events(a)) |-> Events(a)[i].type]

\* the position of the first entry op in the log of slot a, 0 if there is none
Pos(a, op) ==
    IF \E i \in DOMAIN log[a] : log[a][i].op = op
    THEN CHOOSE i \in DOMAIN log[a] :
            /\ log[a][i].op = op
            /\ \A j \in DOMAIN log[a] : log[a][j].op = op => i <= j
    ELSE 0

Has(a, op) == Pos(a, op) # 0

Entry(a, op) == log[a][Pos(a, op)]

\* the position of the first lifecycle message of the given type, 0 if none
EventPos(a, type) ==
    IF \E i \in DOMAIN log[a] : IsNotify(log[a][i]) /\ log[a][i].msg.type = type
    THEN CHOOSE i \in DOMAIN log[a] :
            /\ IsNotify(log[a][i]) /\ log[a][i].msg.type = type
            /\ \A j \in DOMAIN log[a] :
                  (IsNotify(log[a][j]) /\ log[a][j].msg.type = type) => i <= j
    ELSE 0

Count(a, op) == Cardinality({i \in DOMAIN log[a] : log[a][i].op = op})

----------------------------------------------------------------------------
(* C1.  In generateImage, when the credential read from storage is absent  *)
(* or the empty string, the attempt sends exactly one GENERATION_ERROR,    *)
(* with the 'API key not configured' message, and sends no                 *)
(* GENERATION_STARTED, issues no fetch and reads or writes no history.      *)

CredentialAbsentOrEmpty(a) ==
    /\ Has(a, "apiKey")
    /\ Entry(a, "apiKey").value \in {Absent, Stored(EmptyStr)}

C1_MissingKeyStopsAttempt ==
    \A a \in Attempts :
        CredentialAbsentOrEmpty(a) =>
            /\ Events(a) = <<GenerationError(MSG_NO_KEY)>>
            /\ ~Has(a, "fetch")
            /\ ~Has(a, "historyGet") /\ ~Has(a, "historySet") /\ ~Has(a, "historyWritten")
            /\ pc[a] = "done"

C1_Witness ==
    /\ pc[1] = "done"
    /\ Has(1, "apiKey") /\ Entry(1, "apiKey").value = Stored(EmptyStr)
    /\ storageHistory = Stored(Prefill(MAX_HISTORY_SIZE))

(* C2.  Within one generateImage call the credential is read before        *)
(* GENERATION_STARTED is sent, the fetch is issued after it, the history   *)
(* is read and written only after callFalAPI returned, and IMAGE_GENERATED *)
(* is sent only after the history write completed.                          *)

Before(a, i, j) == i # 0 /\ i < j

C2_StepsInOrder ==
    \A a \in Attempts :
        /\ EventPos(a, "GENERATION_STARTED") # 0 =>
              Before(a, Pos(a, "apiKey"), EventPos(a, "GENERATION_STARTED"))
        /\ Has(a, "fetch") =>
              Before(a, EventPos(a, "GENERATION_STARTED"), Pos(a, "fetch"))
        /\ Has(a, "callFalAPI") => Before(a, Pos(a, "fetch"), Pos(a, "callFalAPI"))
        /\ (Has(a, "historyGet") /\ ~IsDirect(a)) =>
              Before(a, Pos(a, "callFalAPI"), Pos(a, "historyGet"))
        /\ Has(a, "historySet") => Before(a, Pos(a, "historyGet"), Pos(a, "historySet"))
        /\ Has(a, "historyWritten") =>
              Before(a, Pos(a, "historySet"), Pos(a, "historyWritten"))
        /\ EventPos(a, "IMAGE_GENERATED") # 0 =>
              /\ Before(a, Pos(a, "historyWritten"), Pos(a, "addToHistoryReturned"))
              /\ Before(a, Pos(a, "addToHistoryReturned"), EventPos(a, "IMAGE_GENERATED"))
              /\ EventPos(a, "IMAGE_GENERATED") = Len(log[a])
        /\ \A op \in {"apiKey", "fetch", "callFalAPI", "historySet", "historyWritten"} :
              Count(a, op) <= 1

C2_Witness ==
    /\ pc[1] = "done" /\ EventPos(1, "IMAGE_GENERATED") # 0
    /\ pc[2] = "histWritten"

(* C3.  The lifecycle messages of one GENERATE_FROM_SIDEPANEL attempt are   *)
(* [GENERATION_ERROR], [GENERATION_STARTED, IMAGE_GENERATED] or            *)
(* [GENERATION_STARTED, GENERATION_ERROR] once it has ended, and a prefix   *)
(* of one of these without terminal message while it runs.                  *)

CompleteLifecycles ==
    {<<"GENERATION_ERROR">>, <<"GENERATION_STARTED", "IMAGE_GENERATED">>,
     <<"GENERATION_STARTED", "GENERATION_ERROR">>}

C3_LifecycleShape ==
    \A a \in Attempts :
        IsDirect(a) \/
        IF pc[a] = "done" THEN EventTypes(a) \in CompleteLifecycles
        ELSE EventTypes(a) \in {<<>>, <<"GENERATION_STARTED">>}

C3_Witness ==
    /\ pc[1] = "done" /\ EventTypes(1) = <<"GENERATION_STARTED", "GENERATION_ERROR">>
    /\ pc[2] = "done" /\ EventTypes(2) = <<"GENERATION_STARTED", "IMAGE_GENERATED">>

(* C4.  For a prompt of at most 1000 characters with a non-whitespace     *)
(* character, an attempt whose API call returns a valid first image URL    *)
(* and whose storage accesses succeed sends GENERATION_STARTED and then    *)
(* exactly one IMAGE_GENERATED, with that prompt and the first image's     *)
(* URL, and its storage write puts exactly one new item, with that prompt  *)
(* and URL, at index 0 of the stored history, before the earlier items.     *)

FirstImageUrl(a) == Entry(a, "callFalAPI").data.images.items[1].url.text

InitialHistories == {<<>>, Prefill(MAX_HISTORY_SIZE)}

C4_SuccessAddsOneItem ==
    \A a \in Attempts :
        (/\ Has(a, "generateImage") /\ Has(a, "callFalAPI") /\ ~Has(a, "storageRejected")
         /\ StrLen(Entry(a, "generateImage").prompt) <= MAX_TEXT_LENGTH
         /\ HasNonWhitespace(Entry(a, "generateImage").prompt)) =>
            LET p == Entry(a, "generateImage").prompt
                u == FirstImageUrl(a)
                h == HistoryOrDefault(storageHistory)
            IN  /\ Events(a) = IF pc[a] = "done"
                               THEN <<GenerationStarted(p), ImageGenerated(p, u)>>
                               ELSE <<GenerationStarted(p)>>
                /\ IF pc[a] \in {"histWritten", "done"}
                   THEN /\ h[1] = Entry(a, "historySet").item
                        /\ h[1].prompt = p /\ h[1].imageUrl = u
                        /\ \A i \in 2 .. Len(h) : h[i].id # h[1].id
                        /\ \E old \in InitialHistories :
                              Tail(h) = Slice0(old, MAX_HISTORY_SIZE - 1)
                   ELSE h \in InitialHistories

C4_Witness ==
    /\ pc[1] = "done"
    /\ EventTypes(1) = <<"GENERATION_STARTED", "IMAGE_GENERATED">>
    /\ StrLen(prompt[1]) = MAX_TEXT_LENGTH
    /\ Len(Entry(1, "callFalAPI").data.images.items) = 2
    /\ Len(HistoryOrDefault(storageHistory)) = MAX_HISTORY_SIZE

(* C5.  Every attempt that was triggered eventually ends with a terminal   *)
(* lifecycle message (IMAGE_GENERATED or GENERATION_ERROR) as its last     *)
(* message, given that every external call eventually resolves or rejects; *)
(* and whatever the other attempts are doing, a new trigger is accepted.    *)

Terminal(a) ==
    /\ pc[a] = "done"
    /\ Events(a) # <<>>
    /\ Events(a)[Len(Events(a))].type \in {"IMAGE_GENERATED", "GENERATION_ERROR"}

C5_EveryTriggerTerminates ==
    /\ \A a \in Attempts : (pc[a] # "idle") ~> Terminal(a)
    /\ [](\A a \in Attempts : FreeSlot(a) => ENABLED OnMessage(GenerateFromSidepanel))

C5_Witness ==
    /\ Terminal(1) /\ Events(1) = <<GenerationStarted(prompt[1]),
                                    GenerationError(MSG_HISTORY_SAVE)>>
    /\ pc[2] = "tabsQuery"

(* C6.  A GENERATE_FROM_PROMPT message the sidepanel sent with its trimmed  *)
(* non-empty prompt makes the background run generateImage with that       *)
(* prompt, up to the credential check.                                      *)

C6_PromptCommandFunnels ==
    routed.type = "GENERATE_FROM_PROMPT" =>
        \E a \in Attempts :
            /\ Has(a, "generateImage")
            /\ Entry(a, "generateImage").prompt = routed.prompt
            /\ Has(a, "getApiKey")

(* C7.  As claimed: with a stored credential that is empty, whitespace     *)
(* only or shorter than 10 characters, an attempt never issues the fetch   *)
(* and ends with the 'API key not configured' failure.                      *)

UnusableCredential(entry) ==
    /\ entry # Absent
    /\ \/ entry[1] = EmptyStr
       \/ Trim(entry[1]) = EmptyStr
       \/ StrLen(entry[1]) < MinApiKeyLength

C7_UnusableKeyNeverFetches ==
    \A a \in Attempts :
        (Has(a, "apiKey") /\ UnusableCredential(Entry(a, "apiKey").value)) =>
            /\ ~Has(a, "fetch")
            /\ Events(a) = <<GenerationError(MSG_NO_KEY)>>

(* C7, amended.  generateImage stops before the fetch, with the 'API key   *)
(* not configured' failure, exactly when the credential it read is absent  *)
(* or the empty string; every other stored credential, whitespace only or  *)
(* shorter than 10 characters included, is announced with                  *)
(* GENERATION_STARTED and sent with the fetch.                              *)

C7_OnlyAbsentOrEmptyKeyStops ==
    \A a \in Attempts :
        Has(a, "apiKey") =>
            LET v == Entry(a, "apiKey").value
            IN  IF v = Absent \/ v = Stored(EmptyStr)
                THEN ~Has(a, "fetch") /\ Events(a) = <<GenerationError(MSG_NO_KEY)>>
                ELSE /\ Has(a, "fetch") /\ Entry(a, "fetch").apiKey = v[1]
                     /\ Events(a)[1] = GenerationStarted(prompt[a])

C7_Witness ==
    /\ Has(1, "apiKey") /\ Entry(1, "apiKey").value = Stored(KeyBlank)
    /\ Has(1, "fetch") /\ pc[1] = "done"
    /\ EventTypes(1) = <<"GENERATION_STARTED", "IMAGE_GENERATED">>

(* C8.  The stored history never has more than 50 items, whatever the      *)
(* interleaving of addToHistory and clearHistory calls; the list           *)
(* addToHistory writes is the new item followed by the first 49 items it   *)
(* read, so that an insert on a full list drops the oldest item and keeps  *)
(* the new one.                                                             *)

Min(x, y) == IF x < y THEN x ELSE y

HistoryBounded ==
    /\ Len(HistoryOrDefault(storageHistory)) <= MAX_HISTORY_SIZE
    /\ \A a \in Attempts : Len(pending[a]) <= MAX_HISTORY_SIZE

EvictsOldest ==
    \A a \in Attempts :
        (pc[a] = "histGet" /\ pc'[a] = "histSet") =>
            LET read == HistoryOrDefault(storageHistory)
            IN  /\ pending'[a][1].id = clock + 1
                /\ pending'[a][1].prompt = prompt[a]
                /\ Tail(pending'[a]) = SubSeq(read, 1, Min(Len(read), MAX_HISTORY_SIZE - 1))

C8_HistoryCapped == []HistoryBounded /\ [][EvictsOldest]_vars

C8_Witness ==
    /\ pc[1] = "done" /\ Has(1, "historyWritten") /\ pc[2] = "histWritten"
    /\ Len(HistoryOrDefault(storageHistory)) = MAX_HISTORY_SIZE
    /\ HistoryOrDefault(storageHistory)[1] = Entry(2, "historySet").item
    /\ HistoryOrDefault(storageHistory)[2] = Entry(1, "historySet").item
    /\ HistoryOrDefault(storageHistory)[MAX_HISTORY_SIZE].id = 2

(* C9.  After N calls of addToHistory made one after another on an empty   *)
(* store, getHistory returns the last min(N, 50) inserted items, newest    *)
(* first.                                                                   *)

\* the i-th item inserted by the sequential calls
InsertedNo(i) == NewHistoryItem(PromptNo(i), GoodUrl, i - 1)

C9_SequentialInserts ==
    pc[1] = "idle" =>
        LET N == clock
            k == Min(N, MAX_HISTORY_SIZE)
        IN  getHistory(storageHistory) = [i \in 1 .. k |-> InsertedNo(N - i + 1)]

C9_Witness ==
    /\ pc[1] = "idle" /\ clock = MAX_HISTORY_SIZE + 2
    /\ Len(getHistory(storageHistory)) = MAX_HISTORY_SIZE
    /\ getHistory(storageHistory)[MAX_HISTORY_SIZE].id = 3

(* C10.  When two generation attempts overlap and both succeed, the items  *)
(* of both are in the stored history once both have ended (history below   *)
(* the cap, no clearHistory call).                                          *)

Succeeded(a) == pc[a] = "done" /\ EventTypes(a) = <<"GENERATION_STARTED", "IMAGE_GENERATED">>

InHistory(item) ==
    \E i \in DOMAIN HistoryOrDefault(storageHistory) : HistoryOrDefault(storageHistory)[i] = item

C10_NoLostUpdate ==
    \A a, b \in Attempts :
        (a # b /\ Succeeded(a) /\ Succeeded(b)
         /\ Len(HistoryOrDefault(storageHistory)) < MAX_HISTORY_SIZE) =>
            /\ InHistory(Entry(a, "historySet").item)
            /\ InHistory(Entry(b, "historySet").item)

(* C11.  An attempt whose callFalAPI call throws (HTTP error status,        *)
(* malformed body, invalid image URL, rejected fetch) does not call         *)
(* addToHistory: it makes no storage read or write, the stored history is   *)
(* the one the attempt found, and it sends exactly one GENERATION_ERROR,    *)
(* after GENERATION_STARTED, with the user message of the thrown error.      *)

C11_FailedCallLeavesHistory ==
    \A a \in Attempts :
        Has(a, "callFalAPIThrew") =>
            /\ pc[a] = "done"
            /\ ~Has(a, "historyGet") /\ ~Has(a, "historySet") /\ ~Has(a, "historyWritten")
            /\ HistoryOrDefault(storageHistory) \in InitialHistories
            /\ Events(a) = <<GenerationStarted(prompt[a]),
                             GenerationError(Entry(a, "callFalAPIThrew").error.userMessage)>>

C11_Witness ==
    /\ pc[1] = "done" /\ Has(1, "fetchRejected") /\ Has(1, "callFalAPIThrew")
    /\ Events(1) = <<GenerationStarted(prompt[1]), GenerationError(MSG_NETWORK)>>
    /\ storageHistory = Stored(Prefill(MAX_HISTORY_SIZE))

(* C12.  When the tab query resolves without an active tab that has an id,  *)
(* handleGenerateFromSidepanel sends exactly one GENERATION_ERROR, 'No      *)
(* active tab found', and does nothing more: no selection request, no       *)
(* credential read, no GENERATION_STARTED, no fetch.                        *)

C12_NoActiveTabStops ==
    \A a \in Attempts :
        (Has(a, "tabs") /\ Entry(a, "tabs").result # "tab") =>
            /\ pc[a] = "done"
            /\ Events(a) = <<GenerationError(<<"No active tab found">>)>>
            /\ log[a][Len(log[a])] = notifySidepanel(GenerationError(<<"No active tab found">>))
            /\ \A op \in {"tabsSendMessage", "generateImage", "getApiKey", "fetch",
                          "historyGet"} : ~Has(a, op)

C12_Witness ==
    /\ pc[1] = "done" /\ Has(1, "tabs") /\ Entry(1, "tabs").result = "noId"
    /\ Events(1) = <<GenerationError(<<"No active tab found">>)>>

(* C13.  When the selection request to the content script rejects, the     *)
(* attempt sends exactly one GENERATION_ERROR, 'Failed to get text          *)
(* selection. Please try again.', no GENERATION_STARTED, and issues no      *)
(* fetch.                                                                    *)

SelectionRejected(a) == Has(a, "tabsSendMessage") /\ Has(a, "caught")

C13_SelectionUnavailable ==
    \A a \in Attempts :
        SelectionRejected(a) =>
            /\ pc[a] = "done"
            /\ Events(a) = <<GenerationError(
                                <<"Failed to get text selection. Please try again.">>)>>
            /\ ~Has(a, "generateImage") /\ ~Has(a, "getApiKey") /\ ~Has(a, "fetch")

C13_Witness ==
    /\ pc[1] = "done" /\ SelectionRejected(1) /\ ~Has(1, "selectionResponse")
    /\ Len(Events(1)) = 1

(* C14.  For every response of the content script that reports an invalid  *)
(* selection, generateImage is not called and exactly one GENERATION_ERROR  *)
(* is sent, with the response's error when it has one and with 'No text     *)
(* selected. Please highlight some text on the page.' otherwise.            *)

InvalidSelection(a) ==
    /\ Has(a, "selectionResponse")
    /\ Entry(a, "selectionResponse").response # Absent
    /\ ~Entry(a, "selectionResponse").response[1].isValid

C14_InvalidSelectionReported ==
    \A a \in Attempts :
        InvalidSelection(a) =>
            LET r == Entry(a, "selectionResponse").response[1]
            IN  /\ pc[a] = "done"
                /\ ~Has(a, "generateImage") /\ ~Has(a, "getApiKey") /\ ~Has(a, "fetch")
                /\ Events(a) = <<GenerationError(
                       IF r.error # <<>> THEN r.error
                       ELSE <<"No text selected. Please highlight some text on the page.">>)>>

C14_Witness ==
    /\ InvalidSelection(1)
    /\ Entry(1, "selectionResponse").response = Stored(GetCurrentSelectionResponse(SelBlank))
    /\ Events(1) = <<GenerationError(<<"Empty or whitespace-only selection">>)>>

(* C15.  A lifecycle message that cannot be delivered changes nothing: the *)
(* step that handles the rejection leaves the attempt where it is, sends    *)
(* no message and touches neither the store nor the panel; and an attempt   *)
(* whose API call and storage accesses succeed still writes its item to     *)
(* the history and sends GENERATION_STARTED and IMAGE_GENERATED, however    *)
(* many of its messages were not delivered.                                  *)

DeliveryFailures(a) == Count(a, "deliveryFailed")

FailureIsSwallowed ==
    \A a \in Attempts :
        DeliveryFailures(a)' > DeliveryFailures(a) =>
            /\ pc' = pc
            /\ Events(a)' = Events(a)
            /\ storageHistory' = storageHistory
            /\ panel' = panel

SuccessDespiteFailures ==
    \A a \in Attempts :
        (pc[a] = "done" /\ Has(a, "callFalAPI") /\ ~Has(a, "storageRejected")) =>
            /\ Events(a) = <<GenerationStarted(prompt[a]),
                             ImageGenerated(prompt[a], imageUrl[a])>>
            /\ Has(a, "historyWritten")
            /\ HistoryOrDefault(storageHistory)[1] = Entry(a, "historySet").item

C15_DeliveryFailureSwallowed == []SuccessDespiteFailures /\ [][FailureIsSwallowed]_vars

C15_Witness ==
    /\ pc[1] = "done" /\ DeliveryFailures(1) = 2
    /\ Before(1, Pos(1, "deliveryFailed"), Pos(1, "callFalAPI"))
    /\ EventTypes(1) = <<"GENERATION_STARTED", "IMAGE_GENERATED">>
    /\ HistoryOrDefault(storageHistory)[1] = Entry(1, "historySet").item

(* C16.  Every response whose status is not a success status has its      *)
(* error text read and makes callFalAPI throw an ApiError that carries the  *)
(* status code and, as user message: the AuthError text for 401 and 403,    *)
(* the RateLimited text for 429, the BadRequest text for 400, the           *)
(* ServiceUnavailable text for every status from 500 on, and for every      *)
(* other status 'Failed to generate image: ' followed by the error text     *)
(* when there is one and the generic 'Failed to generate image. Please try  *)
(* again.' when there is none.                                               *)

ClaimedMessage(st, text) ==
    CASE st \in {401, 403} -> MSG_AUTH
      [] st = 429 -> MSG_RATE_LIMIT
      [] st = 400 -> MSG_BAD_REQUEST
      [] st >= 500 -> MSG_SERVICE
      [] OTHER -> IF text = "" THEN MSG_GENERIC
                  ELSE <<"Failed to generate image: ", text>>

C16_StatusMapping ==
    \A a \in Attempts :
        /\ (status[a] # NoStatus /\ (status[a] < 200 \/ status[a] > 299)) =>
              Has(a, "responseText") /\ ~Has(a, "responseJson")
        /\ Has(a, "errorText") =>
              LET e == Entry(a, "errorText")
                  thrown == Entry(a, "callFalAPIThrew").error
              IN  /\ e.status = status[a]
                  /\ thrown.cls = "ApiError"
                  /\ thrown.statusCode = e.status
                  /\ thrown.userMessage = ClaimedMessage(e.status, e.text)

C16_Witness ==
    /\ pc[1] = "done" /\ Has(1, "errorText")
    /\ Entry(1, "errorText").status = 403 /\ Entry(1, "errorText").text = "detail"
    /\ Entry(1, "callFalAPIThrew").error.userMessage = MSG_AUTH

(* C17.  As claimed: the error of a GENERATION_ERROR message carries no    *)
(* technical detail.  Two attempts that failed with the same HTTP status    *)
(* sent the same error, whatever the raw body of their responses, and the   *)
(* error never contains the raw body.                                        *)

HttpFailed(a) == pc[a] = "done" /\ Has(a, "errorText")

ErrorSent(a) == Events(a)[Len(Events(a))].error

C17_NoTechnicalDetail ==
    /\ \A a, b \in Attempts :
          (HttpFailed(a) /\ HttpFailed(b)
           /\ Entry(a, "errorText").status = Entry(b, "errorText").status) =>
              ErrorSent(a) = ErrorSent(b)
    /\ \A a \in Attempts :
          (HttpFailed(a) /\ Entry(a, "errorText").text # "") =>
              \A i \in DOMAIN ErrorSent(a) : ErrorSent(a)[i] # Entry(a, "errorText").text

(* C18.  As claimed: every rejection of fetch, whatever the type or the    *)
(* message of the error, makes callFalAPI throw an ApiError with the        *)
(* 'check your internet connection' user message, and the attempt sends     *)
(* exactly one GENERATION_ERROR, with that message.                          *)

C18_EveryRejectionIsNetworkError ==
    \A a \in Attempts :
        Has(a, "fetchRejected") =>
            /\ Entry(a, "callFalAPIThrew").error.cls = "ApiError"
            /\ Entry(a, "callFalAPIThrew").error.userMessage = MSG_NETWORK
            /\ Events(a) = <<GenerationStarted(prompt[a]), GenerationError(MSG_NETWORK)>>

(* C19.  As claimed: for a success-status response whose body is null or   *)
(* not an object, has no 'images', has 'images' that is no array or an      *)
(* empty array, or has a first entry that is no object, and for a body      *)
(* that fails to parse, callFalAPI throws an ApiError with the 'invalid     *)
(* response' user message.                                                   *)

LacksImageList(data) ==
    IF data.kind # "object" THEN TRUE
    ELSE IF data.images.kind # "array" THEN TRUE
    ELSE IF Len(data.images.items) = 0 THEN TRUE
    ELSE data.images.items[1].kind # "object"

MalformedResponse(a) ==
    \/ Has(a, "responseBody") /\ LacksImageList(Entry(a, "responseBody").data)
    \/ Has(a, "jsonRejected") /\ Entry(a, "jsonRejected").error.cls = "SyntaxError"

C19_MalformedBodyIsInvalidResponse ==
    \A a \in Attempts :
        MalformedResponse(a) =>
            /\ Entry(a, "callFalAPIThrew").error.cls = "ApiError"
            /\ Entry(a, "callFalAPIThrew").error.userMessage = MSG_INVALID_RESPONSE

(* C20.  When the body has a non-empty image list whose first entry is not *)
(* null, callFalAPI returns the url of that first entry, and only if it is  *)
(* a non-empty string that parses as an absolute URL with scheme http or    *)
(* https; otherwise it throws the ApiError with the 'invalid image URL'     *)
(* user message.  Hence every imageUrl of an IMAGE_GENERATED message and    *)
(* of a stored history item is an http(s) URL.                               *)

IsHttpUrl(text) ==
    /\ text # ""
    /\ ParseURL(text).ok
    /\ ParseURL(text).protocol \in {"http:", "https:"}

HasFirstUrl(data) ==
    IF data.kind # "object" THEN FALSE
    ELSE IF data.images.kind # "array" THEN FALSE
    ELSE IF Len(data.images.items) = 0 THEN FALSE
    ELSE data.images.items[1].kind # "null"

C20_OnlyHttpUrlsReturned ==
    /\ \A a \in Attempts :
          /\ Has(a, "callFalAPI") =>
                LET first == Entry(a, "callFalAPI").data.images.items[1]
                IN  /\ first.url.kind = "string"
                    /\ Entry(a, "callFalAPI").imageUrl = first.url.text
                    /\ IsHttpUrl(first.url.text)
          /\ (Has(a, "responseBody") /\ HasFirstUrl(Entry(a, "responseBody").data)) =>
                LET first == Entry(a, "responseBody").data.images.items[1]
                IN  /\ ~(first.url.kind = "string" /\ IsHttpUrl(first.url.text))
                    /\ Entry(a, "callFalAPIThrew").error.cls = "ApiError"
                    /\ Entry(a, "callFalAPIThrew").error.userMessage = MSG_INVALID_URL
          /\ \A i \in DOMAIN Events(a) :
                Events(a)[i].type = "IMAGE_GENERATED" => IsHttpUrl(Events(a)[i].imageUrl)
          /\ Has(a, "historySet") => IsHttpUrl(Entry(a, "historySet").item.imageUrl)
    /\ \A i \in DOMAIN HistoryOrDefault(storageHistory) :
          IsHttpUrl(HistoryOrDefault(storageHistory)[i].imageUrl)

C20_Witness ==
    /\ pc[1] = "done" /\ Has(1, "callFalAPI")
    /\ Entry(1, "callFalAPI").imageUrl = "http://x/y.png?a=1#b"
    /\ Events(1)[2] = ImageGenerated(prompt[1], "http://x/y.png?a=1#b")
    /\ HistoryOrDefault(storageHistory)[1].imageUrl = "http://x/y.png?a=1#b"

(* C22.  The orchestrator never retries: whatever the environment answers, *)
(* one trigger makes at most one tab query, one selection request, one     *)
(* credential read, one HTTP request, one read of the response body and    *)
(* one history read and write; a failed attempt ends with its error event  *)
(* and no further request, so the requests made never outnumber the        *)
(* triggers received.                                                       *)

ExternalCalls ==
    {"tabsQuery", "tabsSendMessage", "getApiKey", "fetch", "responseText", "responseJson",
     "historyGet", "historySet"}

Failed(a) ==
    pc[a] = "done" /\ Events(a)[Len(Events(a))].type = "GENERATION_ERROR"

InFlight(a) == pc[a] \notin {"idle", "done"}

Started(a) ==
    /\ InFlight(a)
    /\ EventTypes(a) = <<"GENERATION_STARTED">>

StartsAttempt(a) ==
    /\ OnMessage(GenerateFromSidepanel)
    /\ pc'[a] = "tabsQuery"
    /\ log'[a] = <<Did("handleGenerateFromSidepanel"), Did("tabsQuery")>>
    /\ \A b \in Attempts \ {a} : pc'[b] = pc[b] /\ log'[b] = log[b]

TriggerAccepted ==
    \A a \in Attempts : FreeSlot(a) => ENABLED StartsAttempt(a)

NeverWaits ==
    \A a \in Attempts : InFlight(a) => ENABLED AttemptSteps(a)

OneAttemptPerStep ==
    \A a, b \in Attempts :
        (a # b /\ <<pc[a], log[a]>>' # <<pc[a], log[a]>>) =>
            <<pc[b], log[b], prompt[b], status[b], imageUrl[b], pending[b]>>'
                = <<pc[b], log[b], prompt[b], status[b], imageUrl[b], pending[b]>>

C28_NotSerialized ==
    /\ [](TriggerAccepted /\ NeverWaits)
    /\ [][OneAttemptPerStep]_vars

\* two attempts are Started at once, and the later one has overtaken the earlier
C28_Witness ==
    /\ Started(1) /\ pc[1] = "fetch"
    /\ Started(2) /\ pc[2] = "histSet"

(* C21.  The credential is read from storage in every attempt and is not   *)
(* kept between attempts: the value an attempt's getApiKey resolves with is *)
(* the one stored at that moment, whatever saves and removals happened      *)
(* before or while earlier attempts were in flight, and the key the         *)
(* attempt puts in its request is that value.                               *)

ReadsStoredCredential ==
    \A a \in Attempts :
        (pc[a] = "getApiKey" /\ pc'[a] # "getApiKey" /\ Has(a, "apiKey")') =>
            Entry(a, "apiKey")'.value = storageApiKey

SendsCredentialRead ==
    \A a \in Attempts :
        Has(a, "fetch") =>
            /\ Has(a, "apiKey")
            /\ Pos(a, "getApiKey") < Pos(a, "apiKey")
            /\ Pos(a, "apiKey") < Pos(a, "fetch")
            /\ Entry(a, "apiKey").value = Stored(Entry(a, "fetch").apiKey)

C21_CredentialReadPerAttempt ==
    /\ []SendsCredentialRead
    /\ [][ReadsStoredCredential]_vars

\* the credential was replaced while attempt 1 was in flight, and attempt 2
\* sent the new one
C21_Witness ==
    /\ pc[1] = "fetch" /\ Entry(1, "fetch").apiKey = KeyValid
    /\ Has(2, "fetch") /\ Entry(2, "fetch").apiKey = KeyOther

(* C23.  A storage failure is surfaced, not retried.  A call of            *)
(* addToHistory, getHistory or clearHistory whose storage read or write     *)
(* rejects makes no further storage access and rejects with its own         *)
(* 'Failed to save to / retrieve / clear history' error; when that happens  *)
(* to the addToHistory of a generation attempt, after callFalAPI returned,  *)
(* the attempt ends having sent GENERATION_STARTED and one GENERATION_ERROR *)
(* with the 'Failed to save to history' message, and no IMAGE_GENERATED.    *)

StorageAccesses == {"historyGet", "historySet", "historyRead", "historyWritten"}

\* the message each utility gives a storage failure
StorageFailureMessage(fn) ==
    CASE fn = "addToHistory" -> MSG_HISTORY_SAVE
      [] fn = "getHistory" -> MSG_HISTORY_READ
      [] fn = "clearHistory" -> MSG_HISTORY_CLEAR

StorageFailed(a) == Has(a, "storageRejected")

C23_StorageFailureSurfaced ==
    \A a \in Attempts :
        StorageFailed(a) =>
            /\ Count(a, "storageRejected") = 1
            /\ Pos(a, "storageRejected") = Len(log[a]) - 1
            /\ \A op \in StorageAccesses : Count(a, op) <= 1
            /\ log[a][1].op \in {"addToHistory", "getHistory", "clearHistory"} =>
                  /\ pc[a] = "idle"
                  /\ log[a][Len(log[a])] =
                        [op |-> "rejected",
                         error |-> ErrorOf("Error", StorageFailureMessage(log[a][1].op))]
            /\ Has(a, "callFalAPI") =>
                  /\ pc[a] = "done"
                  /\ Events(a) = <<GenerationStarted(prompt[a]),
                                   GenerationError(MSG_HISTORY_SAVE)>>

C23_Witness ==
    /\ pc[1] = "done"
    /\ Has(1, "callFalAPI") /\ Has(1, "historySet") /\ StorageFailed(1)
    /\ Events(1) = <<GenerationStarted(prompt[1]), GenerationError(MSG_HISTORY_SAVE)>>
    /\ storageHistory = Stored(<<>>)

(* C24.  Starting from a store without credential, whatever calls of       *)
(* saveApiKey, of the sidepanel's handleSaveApiKey and of removeApiKey are  *)
(* made, overlapping or not, the stored credential is absent or a string    *)
(* of at least 10 characters that neither begins nor ends with whitespace.  *)
(* The credential changes only when the write of a save of such a key or    *)
(* the removal takes effect; a save of any other key (for handleSaveApiKey, *)
(* the trimmed input) ends at once with the 'Invalid API key format'        *)
(* error, without a storage write.                                          *)

WellFormedKey(k) ==
    /\ k # <<>>
    /\ ~IsWhitespaceChar(FirstChar(k))
    /\ ~IsWhitespaceChar(LastChar(k))
    /\ StrLen(k) >= 10

IsSave(a) == log[a] # <<>> /\ log[a][1].op \in {"saveApiKey", "handleSaveApiKey"}

InvalidSaveRejected(a) ==
    /\ pc[a] = "idle"
    /\ Len(log[a]) = 2
    /\ IF log[a][1].op = "saveApiKey"
       THEN /\ log[a][2].op = "rejected"
            /\ log[a][2].error.message[1] = "Invalid API key format"
       ELSE /\ log[a][2].op = "showErrorInModal"
            /\ log[a][2].message[1] = "Invalid API key format"

StoredCredentialWellFormed ==
    /\ storageApiKey = Absent \/ WellFormedKey(storageApiKey[1])
    /\ \A a \in Attempts :
          (IsSave(a) /\ ~WellFormedKey(log[a][1].apiKey)) => InvalidSaveRejected(a)

CredentialWrittenBySaveOnly ==
    storageApiKey' # storageApiKey =>
        \E a \in Attempts :
            /\ pc'[a] = "idle"
            /\ \/ /\ pc[a] = "keySet"
                  /\ WellFormedKey(log[a][1].apiKey)
                  /\ storageApiKey' = Stored(log[a][1].apiKey)
               \/ pc[a] = "keyRemove" /\ storageApiKey' = Absent

C24_StoredCredentialValid ==
    /\ []StoredCredentialWellFormed
    /\ [][CredentialWrittenBySaveOnly]_vars

\* a valid key is stored, and a later save of a padded key was refused
C24_Witness ==
    /\ storageApiKey = Stored(KeyOther)
    /\ log[1] = <<[op |-> "saveApiKey", apiKey |-> KeyPadded],
                  [op |-> "rejected", error |-> ErrorOf("Error", MSG_KEY_FORMAT)]>>

(* C25.  Credential round trip, with the utilities called one after        *)
(* another.  When saveApiKey(k) has returned, k is what is stored; when     *)
(* removeApiKey has returned, nothing is stored; what is stored changes at  *)
(* no other step; getApiKey returns what is stored (undefined if nothing)   *)
(* and hasApiKey returns true exactly when a non-empty string is stored.    *)
(* So getApiKey returns k after saveApiKey(k), k2 after a later             *)
(* saveApiKey(k2) and undefined after removeApiKey, and hasApiKey is false  *)
(* for a stored empty string.                                               *)

\* the latest call was fn and it has returned
Returned(fn) ==
    /\ pc[1] = "idle"
    /\ log[1] # <<>>
    /\ log[1][1].op = fn
    /\ log[1][Len(log[1])].op = "returned"

ReturnValue == log[1][Len(log[1])].value

RoundTrip ==
    /\ Returned("saveApiKey") => storageApiKey = Stored(log[1][1].apiKey)
    /\ Returned("removeApiKey") => storageApiKey = Absent
    /\ Returned("getApiKey") => ReturnValue = storageApiKey
    /\ Returned("hasApiKey") =>
          ReturnValue = (storageApiKey \notin {Absent, Stored(EmptyStr)})

StoredUntilNextWrite ==
    storageApiKey' # storageApiKey =>
        \/ Returned("saveApiKey")'
        \/ Returned("removeApiKey")'
        \/ pc[1] = "keySet" /\ log[1][1].op = "handleSaveApiKey"

C25_CredentialRoundTrip ==
    /\ []RoundTrip
    /\ [][StoredUntilNextWrite]_vars

\* getApiKey returns a key that an earlier save stored
C25_Witness ==
    /\ Returned("getApiKey")
    /\ ReturnValue = Stored(KeyOther)

(* C26.  clearHistory is total and idempotent, with the history utilities  *)
(* called one after another.  Whatever the stored history is (never         *)
(* written, empty, or holding the items of earlier inserts), a clearHistory *)
(* whose storage write is accepted returns without error and leaves an      *)
(* empty history; the history then stays empty until the write of a later   *)
(* insert takes effect, and getHistory returns the stored list, the empty   *)
(* list if none was ever stored.                                            *)

\* the latest call was fn and it has settled
Settled(fn) == pc[1] = "idle" /\ log[1] # <<>> /\ log[1][1].op = fn

ClearedIsEmpty ==
    /\ Settled("clearHistory") =>
          IF StorageFailed(1)
          THEN log[1][Len(log[1])].op = "rejected"
          ELSE /\ log[1][Len(log[1])].op = "returned"
               /\ HistoryOrDefault(storageHistory) = <<>>
    /\ (Settled("getHistory") /\ ~StorageFailed(1)) =>
          /\ log[1][Len(log[1])].op = "returned"
          /\ log[1][Len(log[1])].value = HistoryOrDefault(storageHistory)

ChangedByWriteOnly ==
    HistoryOrDefault(storageHistory)' # HistoryOrDefault(storageHistory) =>
        \/ pc[1] = "histSet" /\ pc'[1] = "histWritten"
        \/ pc[1] = "histClear" /\ HistoryOrDefault(storageHistory)' = <<>>

C26_ClearHistoryTotal ==
    /\ []ClearedIsEmpty
    /\ [][ChangedByWriteOnly]_vars

\* after inserts and a clearHistory, getHistory has returned the empty list
C26_Witness ==
    /\ Settled("getHistory")
    /\ log[1][Len(log[1])] = [op |-> "returned", value |-> <<>>]
    /\ storageHistory = Stored(<<>>)
    /\ clock = MaxHistInserts

(* C27.  For every page selection, the response the content script sends   *)
(* to GET_CURRENT_SELECTION is invalid, with empty text and wasTruncated    *)
(* false, exactly when the selection holds nothing but whitespace;          *)
(* otherwise it is valid, its text is the selection without its leading and *)
(* trailing whitespace cut to its first 1000 characters, and wasTruncated   *)
(* tells whether something was cut, that is whether the trimmed selection   *)
(* is longer than 1000 characters.  No selection is rejected for its        *)
(* length.                                                                  *)

\* the i-th character of a string
RECURSIVE CharAt(_, _)
CharAt(s, i) == IF i <= Head(s).n THEN Head(s).c ELSE CharAt(Tail(s), i - Head(s).n)

\* the number of whitespace characters a string begins and ends with
LeadingSpaces(s) == IF s # <<>> /\ IsWhitespaceChar(s[1].c) THEN s[1].n ELSE 0
TrailingSpaces(s) == IF s # <<>> /\ IsWhitespaceChar(s[Len(s)].c) THEN s[Len(s)].n ELSE 0

ExpectedResponse(rawText, response) ==
    LET trimmedLength == StrLen(rawText) - LeadingSpaces(rawText) - TrailingSpaces(rawText)
    IN  IF \A k \in DOMAIN rawText : IsWhitespaceChar(rawText[k].c)
        THEN /\ ~response.isValid
             /\ response.text = EmptyStr
             /\ ~response.wasTruncated
        ELSE /\ response.isValid
             /\ StrLen(response.text) = Min(trimmedLength, 1000)
             /\ \A i \in 1 .. StrLen(response.text) :
                   CharAt(response.text, i) = CharAt(rawText, LeadingSpaces(rawText) + i)
             /\ response.wasTruncated = (trimmedLength > 1000)

C27_SelectionResponse ==
    log[1] # <<>> => ExpectedResponse(log[1][1].rawText, log[1][2].response)

\* a selection of 1500 characters between spaces is answered with its first 1000
C27_Witness ==
    /\ log[1] # <<>>
    /\ log[1][1].rawText = <<Run(" ", 2), Run("a", 1500), Run(" ", 1)>>
    /\ log[1][2].response.text = <<Run("a", 1000)>>
    /\ log[1][2].response.isValid
    /\ log[1][2].response.wasTruncated

(* C29.  As claimed: the current-generation area never shows a stale       *)
(* interleaved result.  While it shows the loading state of the attempt     *)
(* that started last, a terminal event of an attempt that started earlier,  *)
(* for another prompt, does not replace what it shows.                      *)

\* the sidepanel received a lifecycle message of the given type from attempt a
Received(a, type) ==
    \E i \in DOMAIN log[a] : log[a][i].op = "delivered" /\ log[a][i].msg.type = type

TerminalReceived(a) == Received(a, "IMAGE_GENERATED") \/ Received(a, "GENERATION_ERROR")

\* for the sidepanel, attempt a is under way
Loading(a) == Received(a, "GENERATION_STARTED") /\ ~TerminalReceived(a)

\* attempt b was triggered after attempt a, its GENERATION_STARTED arrived
\* after a's, and the area shows b's loading state
ShowsLatest(a, b) ==
    /\ a < b
    /\ prompt[a] # prompt[b]
    /\ Loading(a) /\ Loading(b)
    /\ panel = showLoadingState(prompt[b])

StaleResultDisplayed ==
    \E a, b \in Attempts :
        /\ ShowsLatest(a, b)
        /\ TerminalReceived(a)'
        /\ panel' # panel

C29_NoStaleDisplay == [][~StaleResultDisplayed]_vars

(* C30.  As claimed: the generate button is disabled exactly while the     *)
(* sidepanel has received the GENERATION_STARTED of some attempt and not    *)
(* yet that attempt's terminal event.                                       *)

DisabledWhileLoading == (\E a \in Attempts : Loading(a)) => panel.disabled

EnabledWhenSettled == (\A a \in Attempts : ~Loading(a)) => ~panel.disabled

C30_ButtonDisabledWhileLoading == DisabledWhileLoading /\ EnabledWhenSettled

(* C39.  Within one attempt the prompt is never altered, whatever other    *)
(* attempts are doing: the text of the selection response, the prompt       *)
(* passed to generateImage, the prompt of GENERATION_STARTED, the prompt of *)
(* the request, the prompt of the history item written and the prompt of    *)
(* IMAGE_GENERATED are the same string; and the imageUrl of the history     *)
(* item and of IMAGE_GENERATED are the URL callFalAPI returned.             *)

SamePrompt(a, text) ==
    /\ Entry(a, "generateImage").prompt = text
    /\ Has(a, "fetch") => Entry(a, "fetch").prompt = text
    /\ Has(a, "historySet") =>
          /\ Entry(a, "historySet").item.prompt = text
          /\ Entry(a, "historySet").item.imageUrl = Entry(a, "callFalAPI").imageUrl
    /\ \A i \in DOMAIN Events(a) :
          /\ Events(a)[i].type = "GENERATION_STARTED" => Events(a)[i].prompt = text
          /\ Events(a)[i].type = "IMAGE_GENERATED" =>
                /\ Events(a)[i].prompt = text
                /\ Events(a)[i].imageUrl = Entry(a, "historySet").item.imageUrl

C39_PromptUnaltered ==
    \A a \in Attempts :
        Has(a, "generateImage") =>
            SamePrompt(a, Entry(a, "selectionResponse").response[1].text)

\* attempt 1 has reported its image while attempt 2, for another prompt, is
\* waiting for its response
C39_Witness ==
    /\ pc[1] = "done" /\ EventTypes(1) = <<"GENERATION_STARTED", "IMAGE_GENERATED">>
    /\ pc[2] = "fetch"
    /\ prompt[1] # prompt[2]

(* C38.  The background's router acts on GENERATE_FROM_SIDEPANEL only: the  *)
(* receipt of a message of any other type (TEXT_SELECTED,                   *)
(* GET_CURRENT_SELECTION, GENERATE_FROM_PROMPT, the lifecycle events, an    *)
(* unknown type) leaves the stored credential and the stored history        *)
(* unchanged, starts and advances no attempt, sends no lifecycle event and  *)
(* makes no network call.                                                   *)

\* the step is the listener receiving a message of that type
Routes(type) == routed' # routed /\ routed'.type = type

Trimmed(text) ==
    /\ text # EmptyStr
    /\ ~IsWhitespaceChar(FirstChar(text))
    /\ ~IsWhitespaceChar(LastChar(text))
    /\ StrLen(text) <= MAX_TEXT_LENGTH

C34_ValidTextTrimmed ==
    \A i \in DOMAIN log[1] :
        log[1][i].op = "sendResponse" /\ log[1][i].response.isValid =>
            Trimmed(log[1][i].response.text)

(* C35.  The fact that a selection was truncated is carried forward: when   *)
(* the response to GET_CURRENT_SELECTION has wasTruncated = TRUE, the       *)
(* attempt that uses its text still has the flag, in the call of            *)
(* generateImage or in a lifecycle event.  The code passes response.text    *)
(* alone and no lifecycle event has such a field.                           *)

CarriesTruncation(r) == "wasTruncated" \in DOMAIN r /\ r.wasTruncated

C35_TruncationCarried ==
    \A a \in Attempts :
        /\ Has(a, "generateImage")
        /\ Entry(a, "selectionResponse").response[1].wasTruncated
        => \/ CarriesTruncation(Entry(a, "generateImage"))
           \/ \E i \in DOMAIN Events(a) : CarriesTruncation(Events(a)[i])

(* C32.  Clearing is irreversible under interleaving: once a clear has      *)
(* completed its storage write, no item that was in the stored list before  *)
(* the clear is ever in the stored list again, even when an addToHistory    *)
(* call had already read the list.  Here the stored list is empty only      *)
(* after a clear's write, and the items stored before it include those of   *)
(* the initial history; the write of an addToHistory that read the list     *)
(* before the clear puts them back.                                         *)

InitialItems == {Prefill(MAX_HISTORY_SIZE - 1)[i] : i \in 1 .. MAX_HISTORY_SIZE - 1}

C32_ClearIrreversible ==
    [][storageHistory = Stored(<<>>) =>
          \A i \in DOMAIN storageHistory'[1] : storageHistory'[1][i] \notin InitialItems]_vars

(* C36.  The sidepanel sends a generation command only when its local       *)
(* preconditions hold: handleGenerateClick and handleGenerateFromInput send *)
(* no message when no credential is stored and show 'API key not            *)
(* configured' instead, handleGenerateFromInput sends none when the trimmed *)
(* input is empty, and the prompt of a GENERATE_FROM_PROMPT message is the  *)
(* trimmed input.                                                           *)

\* the step is handleGenerateFromInput with an input that is not blank
InputSubmitted == \E v \in InputValues : Trim(v) # EmptyStr /\ handleGenerateFromInput(v)

\* the step is handleGenerateFromInput with a blank input
BlankSubmitted == \E v \in InputValues : Trim(v) = EmptyStr /\ handleGenerateFromInput(v)

Clicked(a) == log[a] # <<>> /\ log[a][1].op = "contextMenuClicked"

ShouldOpen(info, tab) ==
    /\ info.menuItemId = "generate-image"
    /\ info.selectionText # Absent /\ info.selectionText[1] # EmptyStr
    /\ tab # Absent /\ tab[1].id # Absent

OpensForClickedTab(a) ==
    /\ Has(a, "sidePanelOpen") <=> ShouldOpen(log[a][1].info, log[a][1].tab)
    /\ Count(a, "sidePanelOpen") <= 1
    /\ Has(a, "sidePanelOpen") =>
          Stored(Entry(a, "sidePanelOpen").tabId) = log[a][1].tab[1].id

\* the click does nothing but open the panel, and a rejection ends the listener
ClickOnlyOpens(a) ==
    /\ \A i \in DOMAIN log[a] :
          log[a][i].op \in {"contextMenuClicked", "sidePanelOpen", "sidePanelOpened",
                            "openRejected", "caught"}
    /\ pc[a] \in {"idle", "panelOpen"}
    /\ Has(a, "openRejected") =>
          pc[a] = "idle" /\ log[a][Len(log[a])].op = "caught"

\* a step of a click's listener changes nothing outside it
ClickFrame ==
    \A a \in Attempts :
        Clicked(a)' /\ log'[a] # log[a] =>
            /\ UNCHANGED <<storageApiKey, storageHistory, clock, prompt, status,
                           imageUrl, pending, clearPc, routed, panel>>
            /\ \A b \in Attempts \ {a} : pc'[b] = pc[b] /\ log'[b] = log[b]

RetryOfferedIffFailedPrompt ==
    /\ panel.view = "error" => (panel.retry <=> panel.lastFailedPrompt # Absent)
    /\ panel.view # "error" => ~panel.retry

\* the attempt the Retry button started (slot 2) generates for the prompt of
\* the attempt that failed (slot 1)
RetryUsesFailedPrompt ==
    Has(2, "generateImage") =>
        Entry(2, "generateImage").prompt = Entry(1, "generateImage").prompt

C33_RetryWithLastFailedPrompt == RetryOfferedIffFailedPrompt /\ RetryUsesFailedPrompt

(* C31.  The history grid mirrors the stored history: after loadHistory and *)
(* any number of IMAGE_GENERATED events received while the panel is open,   *)
(* the grid shows the stored items, in the same newest-first order, and     *)
(* never more than MAX_HISTORY_SIZE of them.  It is read here when nothing  *)
(* is under way: every attempt has ended and every message has arrived.     *)
(* addToHistoryUI inserts an item and removes none, so once the stored list *)
(* is full the grid grows beyond it.                                        *)

Quiescent == AllDelivered /\ \A a \in Attempts : pc[a] \in {"idle", "done"}

C31_GridMirrorsHistory ==
    Quiescent =>
        /\ panel.history = loadHistory(storageHistory)
        /\ Len(panel.history) <= MAX_HISTORY_SIZE

====
